------------------------------- MODULE MCSync -------------------------------
(* One instance of each of Channel, Latch, SharedMutex (writers only),     *)
(* Logger, Coroutine and RingBuffer for TLC.  They do not interact: in a   *)
(* behaviour one of them runs and the others rest in their initial states. *)
EXTENDS Channel, Latch, SharedMutex, Logger, Coroutine, RingBuffer

Init ==
  /\ ChannelInit /\ LatchInit /\ SharedInit
  /\ LoggerInit /\ CoroutineInit /\ RingInit

vars == <<channelVars, latchVars, sharedVars, loggerVars, coroutineVars, ringVars>>

ChannelRuns ==
  /\ LatchInit /\ SharedInit /\ LoggerInit /\ CoroutineInit /\ RingInit
  /\ UNCHANGED <<latchVars, sharedVars, loggerVars, coroutineVars, ringVars>>
LatchRuns ==
  /\ ChannelInit /\ SharedInit /\ LoggerInit /\ CoroutineInit /\ RingInit
  /\ UNCHANGED <<channelVars, sharedVars, loggerVars, coroutineVars, ringVars>>
WriterRuns ==
  /\ ChannelInit /\ LatchInit /\ LoggerInit /\ CoroutineInit /\ RingInit
  /\ UNCHANGED <<channelVars, latchVars, loggerVars, coroutineVars, ringVars>>
LoggerRuns ==
  /\ ChannelInit /\ LatchInit /\ SharedInit /\ CoroutineInit /\ RingInit
  /\ UNCHANGED <<channelVars, latchVars, sharedVars, coroutineVars, ringVars>>
FramesRun ==
  /\ ChannelInit /\ LatchInit /\ SharedInit /\ LoggerInit /\ RingInit
  /\ UNCHANGED <<channelVars, latchVars, sharedVars, loggerVars, ringVars>>
RingRuns ==
  /\ ChannelInit /\ LatchInit /\ SharedInit /\ LoggerInit /\ CoroutineInit
  /\ UNCHANGED <<channelVars, latchVars, sharedVars, loggerVars, coroutineVars>>

Next ==
  \/ ChannelRuns /\ ChannelNext
  \/ LatchRuns /\ LatchNext
  \/ WriterRuns /\ WriterNext
  \/ LoggerRuns /\ LoggerNext
  \/ FramesRun /\ CoroutineNext
  \/ RingRuns /\ RingNext

(* Only a component that has begun is fair.                                *)
Spec ==
  /\ Init /\ [][Next]_vars
  /\ \A c \in Users : WF_vars(ChannelRuns /\ GoOn(c))
  /\ \A c \in Arriving : WF_vars(LatchRuns /\ Arrive(c))
  /\ \A c \in Writers : WF_vars(WriterRuns /\ WriterStep(c))
=============================================================================
