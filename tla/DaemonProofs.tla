---------------------------- MODULE DaemonProofs ----------------------------
(***************************************************************************)
(* What TaskCoreProofs shows of the tasks holds of the daemon at work, for *)
(* any clients: messages change no task, and the one step that is not a    *)
(* step of TaskCore, a death in an idle loop (by SIGPIPE, or by a fault of *)
(* a client object), breaks nothing.                                       *)
(***************************************************************************)
EXTENDS Daemon, TaskCoreProofs

\* The death of an idle loop.
IdleDeath == Ready /\ Die /\ UNCHANGED <<procVars, objVars, hisVars, taskList>>

\* Every step is one of TaskCore, or leaves TaskCore alone, or is that death.
LEMMA DaemonSteps == [DaemonNext]_daemonVars => [Next]_vars \/ IdleDeath
<1> SUFFICES ASSUME [DaemonNext]_daemonVars PROVE [Next]_vars \/ IdleDeath
  OBVIOUS
<1>1. CASE Loop
  BY <1>1 DEF Loop, Next
<1>2. ASSUME NEW t \in Tasks, Timeout(t) PROVE [Next]_vars
  BY <1>2 DEF Timeout, Next
<1>3. ASSUME NEW p \in Pids, Machine(p) PROVE [Next]_vars
  BY <1>3 DEF Machine, Next
<1>4. ASSUME NEW c \in Clients, Send(c) \/ Serve(c) \/ Leave(c) PROVE UNCHANGED vars
  BY <1>4 DEF Send, Serve, Leave
<1>5. ASSUME NEW c \in Clients, ServeOrphan(c) PROVE UNCHANGED vars \/ IdleDeath
  BY <1>5 DEF ServeOrphan, IdleDeath, vars
<1>6. CASE ObjectsFault
  BY <1>6 DEF ObjectsFault, IdleDeath
<1>7. CASE UNCHANGED daemonVars
  BY <1>7 DEF daemonVars
<1> QED
  BY <1>1, <1>2, <1>3, <1>4, <1>5, <1>6, <1>7 DEF DaemonNext, Clients

\* No handler is under way when it happens, so it leaves none half done.
LEMMA IdleDeathInv == Inv /\ IdleDeath => Inv'
<1> SUFFICES ASSUME Inv, IdleDeath PROVE Inv'
  OBVIOUS
<1> USE DEF Inv, IdleDeath, Ready, Die, Enter, procVars, objVars, hisVars
<1>1. TypeOK'
  BY DEF TypeOK
<1>2. NoLeakedChild'
  BY DEF NoLeakedChild, Child
<1>3. Supervised'
  BY DEF Supervised
<1>4. CleanOwnership' /\ CleanSignals'
  BY DEF CleanOwnership, CleanSignals
<1> QED
  BY <1>1, <1>2, <1>3, <1>4

\* The invariants of TaskCore are inductive under the daemon's steps as well.
LEMMA DaemonNextInv ==
  Inv /\ ThrowsBooting /\ [DaemonNext]_daemonVars => Inv' /\ ThrowsBooting'
<1>1. Inv /\ IdleDeath => ThrowsBooting'
  BY DEF IdleDeath, Die, Enter, ThrowsBooting
<1> QED
  BY <1>1, DaemonSteps, NextInv, ThrowsInv, IdleDeathInv

LEMMA DaemonInvariance == DaemonSpec => [](Inv /\ ThrowsBooting)
<1>1. DaemonInit => Inv /\ ThrowsBooting
  BY InitInv DEF DaemonInit, Init, ObjInit, ThrowsBooting
<1> QED
  BY <1>1, DaemonNextInv, PTL DEF DaemonSpec

-----------------------------------------------------------------------------
\* The invariants of TaskCore, with clients: whatever is sent, answered or left
\* behind, and if the daemon dies of an answer or of a client object.
THEOREM DaemonKeepsTasks ==
  DaemonSpec => [](TypeOK /\ NoLeakedChild /\ Supervised /\ CleanOwnership /\ CleanSignals)
<1>1. Inv => TypeOK /\ NoLeakedChild /\ Supervised /\ CleanOwnership /\ CleanSignals
  BY DEF Inv
<1> QED
  BY <1>1, DaemonInvariance, PTL

\* The daemon implements Supervisor, however it is used and however it ends.
THEOREM DaemonImplementsSupervisor == DaemonSpec => ImplementsSupervisor
<1>1. DaemonInit => Sup!Init
  BY InitRefines DEF DaemonInit
<1>2. ASSUME IdleDeath PROVE UNCHANGED Sup!vars
  BY <1>2, Stutter DEF IdleDeath, procVars, objVars, hisVars, Living
<1>3. Inv /\ [DaemonNext]_daemonVars => [Sup!Next]_(Sup!vars)
  BY <1>2, DaemonSteps, NextRefines
<1> QED
  BY <1>1, <1>3, DaemonInvariance, PTL DEF DaemonSpec, ImplementsSupervisor, Sup!Spec

\* What Supervisor is for: a task has at most one process, and one only while it
\* counts as running.
THEOREM DaemonOneProcess == DaemonSpec => []Sup!OneProcess
<1>1. Inv => Sup!OneProcess
  BY LivingOnRecord DEF Sup!OneProcess, Started
<1> QED
  BY <1>1, DaemonInvariance, PTL
=============================================================================
