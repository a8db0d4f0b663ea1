------------------------------ MODULE Vm86Proofs ------------------------------
(***************************************************************************)
(* As long as no two calls of start8086 have read their files at once, one   *)
(* driver at a time is served, and with its own program's answer, for any    *)
(* number of drivers, polling or not, and any size of the output buffer.     *)
(***************************************************************************)
EXTENDS Vm86, TLAPS

(* Where the thread is says what the flags are and whether a driver is      *)
(* between the end of start8086 and the end of finish8086.                  *)
Served == \E c \in Client : pc[c] \in Running

Handshake ==
  ~overlapped =>
    /\ vmReady => place = "ready" /\ paused /\ ~Served
    /\ vmDone => place = "done" /\ paused /\ vmRetV = image
    /\ place = "mainloop2" => ~paused /\ ~Served
    /\ place = "program" => ~paused
    /\ place = "done" /\ ~paused => ~Served
    /\ \A c \in Client : pc[c] = "started" => place = "ready" /\ paused
    /\ \A c \in Client : pc[c] = "loading" => vmReady /\ vmToHostCommsPtr = 0

(* What is in the buffer was written by the program in memory.              *)
CommsFresh ==
  ~overlapped => \A i \in 0 .. vmToHostCommsPtr - 1 : vmToHostComms[i] = image

NothingGot ==
  ~overlapped => \A c \in Client : pc[c] \in {"idle", "loading", "started"} => got[c] = {}

Inv ==
  /\ TypeOK
  /\ Handshake
  /\ CommsFresh
  /\ NothingGot
  /\ OneAtATime
  /\ OwnAnswer
  /\ OwnOutput

LEMMA InitInv == Init => Inv
<1> SUFFICES ASSUME Init PROVE Inv
  OBVIOUS
<1>1. TypeOK
  <2>1. \A c \in Client : program[c] \in Program
    BY DEF Init, Program
  <2>2. program \in [Client -> Program] /\ vmToHostCommsPtr \in 0 .. CommsSize - 1
    BY <2>1, Vm86Assumption DEF Init
  <2>3. totalGot \in [Client -> 0 .. Wanted + 1]
    BY Vm86Assumption DEF Init
  <2> QED BY <2>2, <2>3 DEF Init, TypeOK, InCall, Running, Places
<1>2. Handshake /\ CommsFresh /\ NothingGot
  BY DEF Init, Handshake, Served, InCall, Running, CommsFresh, NothingGot
<1>3. OneAtATime /\ OwnAnswer /\ OwnOutput
  BY DEF Init, OneAtATime, OwnAnswer, OwnOutput, InCall, Running
<1> QED BY <1>1, <1>2, <1>3 DEF Inv

LEMMA ThreadStep == Inv /\ Thread => Inv'
<1> SUFFICES ASSUME Inv, Thread PROVE Inv'
  OBVIOUS
<1> USE Vm86Assumption DEF Inv, TypeOK, Places, InCall, Running, Handshake, Served, CommsFresh,
      NothingGot, OneAtATime, OwnAnswer, OwnOutput, vmVars, commsVars, threadVars, clientVars,
      loadVars
<1>1. CASE Mainloop2
  <2>1. TypeOK'
    BY <1>1 DEF Mainloop2
  <2>2. Handshake'
    BY <1>1 DEF Mainloop2
  <2>3. CommsFresh'
    BY <1>1 DEF Mainloop2
  <2>4. NothingGot'
    BY <1>1 DEF Mainloop2
  <2>5. OneAtATime'
    BY <1>1 DEF Mainloop2
  <2>6. OwnAnswer'
    BY <1>1 DEF Mainloop2
  <2>7. OwnOutput'
    BY <1>1 DEF Mainloop2
  <2> QED BY <2>1, <2>2, <2>3, <2>4, <2>5, <2>6, <2>7
<1>2. CASE GoToVM86
  <2>1. TypeOK'
    BY <1>2 DEF GoToVM86
  <2>2. Handshake'
    BY <1>2 DEF GoToVM86
  <2>3. CommsFresh'
    BY <1>2 DEF GoToVM86
  <2>4. NothingGot'
    BY <1>2 DEF GoToVM86
  <2>5. OneAtATime'
    BY <1>2 DEF GoToVM86
  <2>6. OwnAnswer'
    BY <1>2 DEF GoToVM86
  <2>7. OwnOutput'
    BY <1>2 DEF GoToVM86
  <2> QED BY <2>1, <2>2, <2>3, <2>4, <2>5, <2>6, <2>7
<1>3. CASE Outbv
  <2>1. TypeOK'
    BY <1>3 DEF Outbv, PtrAfter
  <2>2. Handshake'
    BY <1>3 DEF Outbv, PtrAfter
  <2>3. CommsFresh'
    BY <1>3 DEF Outbv, PtrAfter
  <2>4. NothingGot'
    BY <1>3 DEF Outbv, PtrAfter
  <2>5. OneAtATime'
    BY <1>3 DEF Outbv, PtrAfter
  <2>6. OwnAnswer'
    BY <1>3 DEF Outbv, PtrAfter
  <2>7. OwnOutput'
    BY <1>3 DEF Outbv, PtrAfter
  <2> QED BY <2>1, <2>2, <2>3, <2>4, <2>5, <2>6, <2>7
<1>4. CASE Mainloop3
  <2>1. TypeOK'
    BY <1>4 DEF Mainloop3
  <2>2. Handshake'
    BY <1>4 DEF Mainloop3
  <2>3. CommsFresh'
    BY <1>4 DEF Mainloop3
  <2>4. NothingGot'
    BY <1>4 DEF Mainloop3
  <2>5. OneAtATime'
    BY <1>4 DEF Mainloop3
  <2>6. OwnAnswer'
    BY <1>4 DEF Mainloop3
  <2>7. OwnOutput'
    BY <1>4 DEF Mainloop3
  <2> QED BY <2>1, <2>2, <2>3, <2>4, <2>5, <2>6, <2>7
<1>5. CASE Finished
  <2>1. TypeOK'
    BY <1>5 DEF Finished
  <2>2. Handshake'
    BY <1>5 DEF Finished
  <2>3. CommsFresh'
    BY <1>5 DEF Finished
  <2>4. NothingGot'
    BY <1>5 DEF Finished
  <2>5. OneAtATime'
    BY <1>5 DEF Finished
  <2>6. OwnAnswer'
    BY <1>5 DEF Finished
  <2>7. OwnOutput'
    BY <1>5 DEF Finished
  <2> QED BY <2>1, <2>2, <2>3, <2>4, <2>5, <2>6, <2>7
<1> QED BY <1>1, <1>2, <1>3, <1>4, <1>5 DEF Thread

LEMMA ClientStep ==
  ASSUME Inv, NEW c \in Client, Driver(c)
  PROVE  Inv'
<1> USE Vm86Assumption DEF Inv, TypeOK, Places, InCall, Running, Handshake, Served, CommsFresh,
      NothingGot, OneAtATime, OwnAnswer, OwnOutput, vmVars, commsVars, threadVars, clientVars,
      loadVars
<1>1. CASE Start(c)
  <2>1. TypeOK'
    BY <1>1 DEF Start, ClearComms
  <2>2. Handshake'
    BY <1>1 DEF Start, ClearComms
  <2>3. CommsFresh'
    BY <1>1 DEF Start, ClearComms
  <2>4. NothingGot'
    BY <1>1 DEF Start, ClearComms
  <2>5. OneAtATime'
    BY <1>1 DEF Start, ClearComms
  <2>6. OwnAnswer'
    BY <1>1 DEF Start, ClearComms
  <2>7. OwnOutput'
    BY <1>1 DEF Start, ClearComms
  <2> QED BY <2>1, <2>2, <2>3, <2>4, <2>5, <2>6, <2>7
<1>2. CASE Load(c)
  <2>1. TypeOK'
    <3>1. image' \in Program \cup {NoProgram}
      BY <1>2 DEF Load
    <3>2. misread' \subseteq Client
      BY <1>2 DEF Load
    <3> QED BY <1>2, <3>1, <3>2 DEF Load, NotReady
  <2>2. Handshake'
    BY <1>2 DEF Load, NotReady
  <2>3. CommsFresh'
    BY <1>2 DEF Load, NotReady
  <2>4. NothingGot'
    BY <1>2 DEF Load, NotReady
  <2>5. OneAtATime'
    BY <1>2 DEF Load, NotReady
  <2>6. OwnAnswer'
    BY <1>2 DEF Load, NotReady
  <2>7. OwnOutput'
    BY <1>2 DEF Load, NotReady
  <2> QED BY <2>1, <2>2, <2>3, <2>4, <2>5, <2>6, <2>7
<1>3. CASE FilePanic(c)
  <2>1. TypeOK'
    BY <1>3 DEF FilePanic
  <2>2. Handshake'
    BY <1>3 DEF FilePanic
  <2>3. CommsFresh'
    BY <1>3 DEF FilePanic
  <2>4. NothingGot'
    BY <1>3 DEF FilePanic
  <2>5. OneAtATime'
    BY <1>3 DEF FilePanic
  <2>6. OwnAnswer'
    BY <1>3 DEF FilePanic
  <2>7. OwnOutput'
    BY <1>3 DEF FilePanic
  <2> QED BY <2>1, <2>2, <2>3, <2>4, <2>5, <2>6, <2>7
<1>4. CASE StartUnblock(c)
  <2>1. TypeOK'
    BY <1>4 DEF StartUnblock
  <2>2. Handshake'
    BY <1>4 DEF StartUnblock
  <2>3. CommsFresh'
    BY <1>4 DEF StartUnblock
  <2>4. NothingGot'
    BY <1>4 DEF StartUnblock
  <2>5. OneAtATime'
    BY <1>4 DEF StartUnblock
  <2>6. OwnAnswer'
    BY <1>4 DEF StartUnblock
  <2>7. OwnOutput'
    BY <1>4 DEF StartUnblock
  <2> QED BY <2>1, <2>2, <2>3, <2>4, <2>5, <2>6, <2>7
<1>5. CASE GetOutput(c)
  <2>1. TypeOK'
    BY <1>5 DEF GetOutput
  <2>2. Handshake'
    BY <1>5 DEF GetOutput
  <2>3. CommsFresh'
    BY <1>5 DEF GetOutput
  <2>4. NothingGot'
    BY <1>5 DEF GetOutput
  <2>5. OneAtATime'
    BY <1>5 DEF GetOutput
  <2>6. OwnAnswer'
    BY <1>5 DEF GetOutput
  <2>7. OwnOutput'
    BY <1>5 DEF GetOutput
  <2> QED BY <2>1, <2>2, <2>3, <2>4, <2>5, <2>6, <2>7
<1>6. CASE CountOutput(c)
  <2>1. TypeOK'
    BY <1>6 DEF CountOutput
  <2>2. Handshake'
    BY <1>6 DEF CountOutput
  <2>3. CommsFresh'
    BY <1>6 DEF CountOutput
  <2>4. NothingGot'
    BY <1>6 DEF CountOutput
  <2>5. OneAtATime'
    BY <1>6 DEF CountOutput
  <2>6. OwnAnswer'
    BY <1>6 DEF CountOutput
  <2>7. OwnOutput'
    BY <1>6 DEF CountOutput
  <2> QED BY <2>1, <2>2, <2>3, <2>4, <2>5, <2>6, <2>7
<1>7. CASE EmptyComms(c)
  <2>1. TypeOK'
    BY <1>7 DEF EmptyComms
  <2>2. Handshake'
    BY <1>7 DEF EmptyComms
  <2>3. CommsFresh'
    BY <1>7 DEF EmptyComms
  <2>4. NothingGot'
    BY <1>7 DEF EmptyComms
  <2>5. OneAtATime'
    BY <1>7 DEF EmptyComms
  <2>6. OwnAnswer'
    BY <1>7 DEF EmptyComms
  <2>7. OwnOutput'
    BY <1>7 DEF EmptyComms
  <2> QED BY <2>1, <2>2, <2>3, <2>4, <2>5, <2>6, <2>7
<1>8. CASE Finish(c)
  <2>1. TypeOK'
    BY <1>8 DEF Finish, NotDone
  <2>2. Handshake'
    BY <1>8 DEF Finish, NotDone
  <2>3. CommsFresh'
    BY <1>8 DEF Finish, NotDone
  <2>4. NothingGot'
    BY <1>8 DEF Finish, NotDone
  <2>5. OneAtATime'
    BY <1>8 DEF Finish, NotDone
  <2>6. OwnAnswer'
    BY <1>8 DEF Finish, NotDone
  <2>7. OwnOutput'
    BY <1>8 DEF Finish, NotDone
  <2> QED BY <2>1, <2>2, <2>3, <2>4, <2>5, <2>6, <2>7
<1>9. CASE Return(c)
  <2>1. TypeOK'
    BY <1>9 DEF Return, Program
  <2>2. Handshake'
    BY <1>9 DEF Return, Program
  <2>3. CommsFresh'
    BY <1>9 DEF Return, Program
  <2>4. NothingGot'
    BY <1>9 DEF Return, Program
  <2>5. OneAtATime'
    BY <1>9 DEF Return, Program
  <2>6. OwnAnswer'
    BY <1>9 DEF Return, Program
  <2>7. OwnOutput'
    BY <1>9 DEF Return, Program
  <2> QED BY <2>1, <2>2, <2>3, <2>4, <2>5, <2>6, <2>7
<1> QED BY <1>1, <1>2, <1>3, <1>4, <1>5, <1>6, <1>7, <1>8, <1>9 DEF Driver

LEMMA StutterInv == Inv /\ UNCHANGED vars => Inv'
BY DEF Inv, TypeOK, Handshake, Served, CommsFresh, NothingGot, OneAtATime, OwnAnswer, OwnOutput,
       vars, vmVars, commsVars, threadVars, clientVars, loadVars

(* The inductive invariant of the hand-shake (vm8086.cpp:66-125, 164-225).    *)
THEOREM Handshaking == Spec => []Inv
<1>1. Inv /\ [Next]_vars => Inv'
  BY ThreadStep, ClientStep, StutterInv DEF Next
<1> QED BY InitInv, <1>1, PTL DEF Spec

(* The type invariant: outbv leaves vmToHostCommsPtr within the buffer,      *)
(* whatever overlaps.                                                       *)
THEOREM TypeCorrect == Spec => []TypeOK
BY Handshaking, PTL DEF Inv

(* One driver is between start8086 and the end of finish8086, unless two     *)
(* calls of start8086 have read their files at once.                        *)
THEOREM OneDriver == Spec => []OneAtATime
BY Handshaking, PTL DEF Inv

(* Under the same condition finish8086 returns the eax that its caller's     *)
(* program ended with, if the file of the program was read.                 *)
THEOREM AnswersAreOwn == Spec => []OwnAnswer
BY Handshaking, PTL DEF Inv

(* Under the same condition getOutput8086 returns bytes that its caller's    *)
(* program has written.                                                     *)
THEOREM OutputIsOwn == Spec => []OwnOutput
BY Handshaking, PTL DEF Inv

=============================================================================
