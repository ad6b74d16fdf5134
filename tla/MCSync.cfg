CONSTANTS
  Senders = {s1, s2}
  Receivers = {r1, r2}
  Cap = 1
  MaxValue = 3
  Counting = {a1, a2}
  Waiting = {a2, a3, a4}
  Writers = {w1, w2, w3, w4}
  Readers = {}
  BufferSize = 1
  MaxBuffers = 3
  MaxRecord = 5
  Frames = {1, 2, 3}
  Tasks = {1, 2}
  NoFrame = NoFrame
  MaxCapacity = 3
  Items = {1, 2}
SPECIFICATION Spec
INVARIANTS WaitsForNothingThere DeliveredOnceInOrder PassesAfterCountdown OneWriter
  WrittenAtMostOnce NothingLostUnraced FramesOwnedOnce RingIsQueue
PROPERTIES ClosingEndsOperations EveryWaiterPasses SomeWriterEnters
CHECK_DEADLOCK FALSE
