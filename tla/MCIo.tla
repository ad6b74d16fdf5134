-------------------------------- MODULE MCIo --------------------------------
(* One instance of each of Timer, Driver, BufferedIO, CurrentThread,       *)
(* Descriptors and Files for TLC.  They do not interact here: in a         *)
(* behaviour one of them runs and the others rest in their initial states. *)
EXTENDS Timer, Driver, BufferedIO, CurrentThread, Descriptors, Files

Init ==
  /\ TimerInit /\ DriverInit /\ BufferedInit /\ ThreadInit
  /\ DescriptorsInit /\ FilesInit /\ DirectoriesInit

readerVars == <<rbuf, taken, reading, received, returned>>
writerVars == <<wbuf, sink, writing, accepted>>
vars == <<timerVars, driverVars, readerVars, writerVars, threadVars, fdVars, filesVars, dirVars>>

TimerRuns ==
  /\ DriverInit /\ BufferedInit /\ ThreadInit /\ DescriptorsInit
  /\ FilesInit /\ DirectoriesInit
  /\ UNCHANGED <<driverVars, bufferedVars, threadVars, fdVars, filesVars, dirVars>>
DriverRuns ==
  /\ TimerInit /\ BufferedInit /\ ThreadInit /\ DescriptorsInit
  /\ FilesInit /\ DirectoriesInit
  /\ UNCHANGED <<timerVars, bufferedVars, threadVars, fdVars, filesVars, dirVars>>
(* Reading and writing do not share state either.                          *)
ReaderRuns ==
  /\ TimerInit /\ DriverInit /\ ThreadInit /\ DescriptorsInit
  /\ wbuf.held = <<>> /\ sink = <<>> /\ writing = NoCall
  /\ FilesInit /\ DirectoriesInit
  /\ UNCHANGED <<timerVars, driverVars, threadVars, fdVars, filesVars, dirVars>>
WriterRuns ==
  /\ TimerInit /\ DriverInit /\ ThreadInit /\ DescriptorsInit
  /\ taken = 0 /\ reading = NoCall /\ returned = NoCall
  /\ FilesInit /\ DirectoriesInit
  /\ UNCHANGED <<timerVars, driverVars, threadVars, fdVars, filesVars, dirVars>>
ThreadRuns ==
  /\ TimerInit /\ DriverInit /\ BufferedInit /\ DescriptorsInit
  /\ FilesInit /\ DirectoriesInit
  /\ UNCHANGED <<timerVars, driverVars, bufferedVars, fdVars, filesVars, dirVars>>
OwnersRun ==
  /\ TimerInit /\ DriverInit /\ BufferedInit /\ ThreadInit
  /\ FilesInit /\ DirectoriesInit
  /\ UNCHANGED <<timerVars, driverVars, bufferedVars, threadVars, filesVars, dirVars>>
FilesRun ==
  /\ TimerInit /\ DriverInit /\ BufferedInit /\ ThreadInit /\ DescriptorsInit
  /\ DirectoriesInit
  /\ UNCHANGED <<timerVars, driverVars, bufferedVars, threadVars, fdVars, dirVars>>
DirectoriesRun ==
  /\ TimerInit /\ DriverInit /\ BufferedInit /\ ThreadInit /\ DescriptorsInit
  /\ FilesInit
  /\ UNCHANGED <<timerVars, driverVars, bufferedVars, threadVars, fdVars, filesVars>>

Next ==
  \/ TimerRuns /\ TimerNext
  \/ DriverRuns /\ DriverNext
  \/ ReaderRuns /\ ReaderNext
  \/ WriterRuns /\ WriterNext
  \/ ThreadRuns /\ ThreadNext
  \/ OwnersRun /\ DescriptorsNext
  \/ FilesRun /\ FilesNext
  \/ DirectoriesRun /\ DirectoriesNext

(* Only a component that has begun is fair: the kernel takes what is       *)
(* submitted, and the worker polls, handles all that is due in a poll, and *)
(* goes on running.                                                        *)
Spec ==
  /\ Init /\ [][Next]_vars
  /\ WF_vars(DriverRuns /\ Take)
  /\ WF_vars(DriverRuns /\ Reap) /\ WF_vars(DriverRuns /\ EndPoll)
  /\ \A c \in Coroutines : SF_vars(DriverRuns /\ Expire(c))
  /\ WF_vars(ThreadRuns /\ WorkerRuns)
=============================================================================
