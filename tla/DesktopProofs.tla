---------------------------- MODULE DesktopProofs ----------------------------
(***************************************************************************)
(* Proofs about three parts of the desktop around the pet.                 *)
(*                                                                         *)
(* AtomicJsonFile, for any set of settings and any number of processes:    *)
(* the settings file implements a document store, and the controller's     *)
(* code tells what a save did.  The refinement needs to know that the      *)
(* temporary file is whole when it replaces the target, and that a save is *)
(* under way only over a document that was read.                           *)
(*                                                                         *)
(* SingleInstance, for any finite set of processes and any bound on the    *)
(* owner's clients: there is one owner, and an owner that closes           *)
(* acknowledges nobody.  OneOwner is not inductive: that an activation is  *)
(* not shown twice rests on the states of a client's connection, which     *)
(* only move forward.                                                      *)
(*                                                                         *)
(* ApplicationShell, with or without a main window, whatever the tray view *)
(* raises and whichever write of the checkpoint fails: the exit is orderly *)
(* and the checkpoint has no gap.  The exit needs that nothing closes      *)
(* before the event loop and nothing is closed within it; the checkpoint   *)
(* needs the order main has reached at each of its places.                 *)
(***************************************************************************)
EXTENDS AtomicJsonFile, SingleInstance, ApplicationShell, FiniteSetTheorems, TLAPS

-----------------------------------------------------------------------------
(* The settings file: the inductive invariant.                             *)

Controller == [loaded : BOOLEAN, allowed : BOOLEAN, blocked : BOOLEAN, attempted : BOOLEAN,
               code : Refused \cup {None, "initialization_failed", "restore_failed",
                                    "snapshot_failed", "write_failed"} \cup Documents]

\* What is being saved, and that the temporary file is whole when it replaces.
SaveHasValue ==
  /\ value \in Settings \cup {None}
  /\ Saving <=> value # None
  /\ step = "mkstemp" => temp = None
  /\ step = "replace" => temp = value
  /\ temp # None => Saving

\* Saving is allowed only over a document that load() accepted, which nobody
\* replaces but this process.
OverDocuments ==
  /\ step = "start" => ctl = NotLoaded
  /\ ctl.allowed => target \in Documents
  /\ Saving => ctl.allowed /\ ctl.attempted

\* A process that has not come to the end of its save has left nothing behind.
LeftBehind ==
  /\ left \in Nat /\ left <= processes
  /\ ~ctl.attempted \/ Saving => left < processes

JsonInv ==
  /\ JsonTypeOK /\ ctl \in Controller
  /\ SaveHasValue /\ OverDocuments /\ LeftBehind

-----------------------------------------------------------------------------
(* The settings file: lemmas.                                              *)

\* The first state satisfies the invariant.
LEMMA JsonInvInit == ASSUME JsonAssumption PROVE JsonInit => JsonInv
  BY DEF JsonAssumption, JsonInit, JsonInv, JsonTypeOK, Controller, NotLoaded, SaveHasValue,
     OverDocuments, LeftBehind, Saving, Documents, Refused, None, Absent

\* Every step keeps the invariant.
LEMMA JsonInvStep ==
  ASSUME JsonAssumption, JsonInv, [JsonNext]_jsonVars PROVE JsonInv'
<1> USE DEF JsonAssumption, JsonInv, JsonTypeOK, SaveHasValue, OverDocuments, LeftBehind, Saving
<1>1. CASE Load
  <2>1. PICK restored \in BOOLEAN :
          ctl' = [loaded |-> TRUE, allowed |-> target \in Documents,
                  blocked |-> ~restored, attempted |-> FALSE,
                  code |-> IF restored THEN LoadCode(target) ELSE "restore_failed"]
    BY <1>1 DEF Load
  <2>2. LoadCode(target) \in Refused \cup {None, "initialization_failed"}
    BY DEF LoadCode, Refused
  <2>3. ctl' \in Controller BY <2>1, <2>2 DEF Controller
  <2>4. ctl'.allowed <=> target \in Documents BY <2>1
  <2>5. ctl.attempted = FALSE BY <1>1 DEF Load, NotLoaded
  <2> QED BY <1>1, <2>3, <2>4, <2>5 DEF Load
<1>2. CASE SnapshotFails
  BY <1>2 DEF SnapshotFails, Controller
<1>3. CASE SaveOnce
  BY <1>3 DEF SaveOnce, MaySave, Controller
<1>4. CASE MakeTemporary
  BY <1>4 DEF MakeTemporary, None
<1>5. CASE WriteTemporary
  BY <1>5 DEF WriteTemporary, None
<1>6. CASE Replace
  BY <1>6 DEF Replace, Controller, Documents
<1>7. CASE SaveFails
  BY <1>7 DEF SaveFails, Controller
<1>8. CASE Restart
  BY <1>8 DEF Restart, NotLoaded, Controller
<1>9. CASE UNCHANGED jsonVars
  BY <1>9 DEF jsonVars
<1> QED BY <1>1, <1>2, <1>3, <1>4, <1>5, <1>6, <1>7, <1>8, <1>9 DEF JsonNext

\* Every step of the file is a step of the store or leaves it alone.
LEMMA RefinedStep ==
  ASSUME JsonAssumption, JsonInv, [JsonNext]_jsonVars
  PROVE  [Store!Next]_(<<target, IF value = None THEN "nothing" ELSE value>>)
<1> USE DEF JsonAssumption, JsonInv, SaveHasValue, OverDocuments, Saving
<1>1. CASE SaveOnce
  <2>1. CASE MaySave
    <3>1. Store!Begin
      BY <1>1, <2>1 DEF SaveOnce, MaySave, Store!Begin, Store!Nothing, Documents
    <3> QED BY <3>1 DEF Store!Next
  <2>2. CASE ~MaySave BY <1>1, <2>2 DEF SaveOnce
  <2> QED BY <2>1, <2>2
<1>2. CASE Replace
  <2>1. Store!Commit BY <1>2 DEF Replace, Store!Commit, Store!Nothing
  <2> QED BY <2>1 DEF Store!Next
<1>3. CASE SaveFails
  <2>1. Store!Abandon BY <1>3 DEF SaveFails, Store!Abandon, Store!Nothing
  <2> QED BY <2>1 DEF Store!Next
<1>4. CASE Restart
  <2>1. CASE value = None BY <1>4, <2>1 DEF Restart
  <2>2. CASE value # None
    <3>1. Store!Abandon BY <1>4, <2>2 DEF Restart, Store!Abandon, Store!Nothing
    <3> QED BY <3>1 DEF Store!Next
  <2> QED BY <2>1, <2>2
<1>5. CASE Load \/ SnapshotFails \/ MakeTemporary \/ WriteTemporary \/ UNCHANGED jsonVars
  BY <1>5 DEF Load, SnapshotFails, MakeTemporary, WriteTemporary, jsonVars
<1> QED BY <1>1, <1>2, <1>3, <1>4, <1>5 DEF JsonNext

-----------------------------------------------------------------------------
(* The settings file: theorems.                                            *)

\* Types, and each process leaves at most one temporary file behind.
THEOREM FileInvariant ==
  ASSUME JsonAssumption PROVE JsonSpec => [](JsonTypeOK /\ OneTemporaryEach)
<1>1. JsonInit => JsonInv BY JsonInvInit
<1>2. JsonInv /\ [JsonNext]_jsonVars => JsonInv' BY JsonInvStep
<1>3. JsonInv => JsonTypeOK /\ OneTemporaryEach
  BY DEF JsonInv, JsonTypeOK, LeftBehind, OneTemporaryEach
<1> QED BY <1>1, <1>2, <1>3, PTL DEF JsonSpec

\* JsonPetSettingsRepository implements a document store: whatever raises and
\* whenever the process dies, the target is one whole document, replaced only
\* by the settings being saved and never if load() refused it.
THEOREM FileRefinesStore == ASSUME JsonAssumption PROVE JsonSpec => FileImplementsStore
<1>1. JsonInit => JsonInv BY JsonInvInit
<1>2. JsonInv /\ [JsonNext]_jsonVars => JsonInv' BY JsonInvStep
<1>3. JsonInit => Store!Init
  BY DEF JsonInit, Store!Init, Store!Nothing
<1>4. JsonInv /\ [JsonNext]_jsonVars
        => [Store!Next]_(<<target, IF value = None THEN "nothing" ELSE value>>)
  BY RefinedStep
<1> QED BY <1>1, <1>2, <1>3, <1>4, PTL DEF JsonSpec, FileImplementsStore, Store!Spec

\* save_once ends with a code that is true: write_failed exactly when the file
\* was left as it was.
THEOREM ReportTruthful == ASSUME JsonAssumption PROVE JsonSpec => [][ReportIsTruthful]_jsonVars
<1>1. JsonInit => JsonInv BY JsonInvInit
<1>2. JsonInv /\ [JsonNext]_jsonVars => JsonInv' BY JsonInvStep
<1>3. ASSUME JsonInv, [JsonNext]_jsonVars PROVE ReportIsTruthful
  BY <1>3 DEF JsonInv, SaveHasValue, Saving, Controller, ReportIsTruthful, JsonNext, jsonVars, Load, SnapshotFails,
     SaveOnce, MakeTemporary, WriteTemporary, Replace, SaveFails, Restart, None
<1> QED BY <1>1, <1>2, <1>3, PTL DEF JsonSpec

-----------------------------------------------------------------------------
(* The single instance: the inductive invariant.                           *)

Stages == {"new", "connecting", "waiting", "quitting", "exited"} \cup Owning

Connections == {"none", "queued", "open", "expired", "terminal", "gone"}

InstanceTypes ==
  /\ pc \in [Procs -> Stages]
  /\ lock \in Procs \cup {Nobody} /\ server \in Procs \cup {Nobody}
  /\ conn \in [Procs -> Connections]
  /\ sent \in [Procs -> {"nothing", "part", "whole"}]
  /\ reply \in [Procs -> {"none", "ack", "busy", "reject"}]
  /\ queued \in SUBSET Procs /\ shown \in SUBSET Procs

\* Who is connected has asked once, and waits for the answer or has ended.
ConnectedOnce == \A c \in Procs : conn[c] # "none" => pc[c] \in {"waiting", "exited"}

\* An acknowledged session is over; its activation is queued, then shown.
AcknowledgedIsOver ==
  /\ \A c \in queued \cup shown : conn[c] \in {"terminal", "gone"}
  /\ \A c \in Procs : ~(c \in queued /\ c \in shown)

TableIsBounded == Cardinality(Clients) <= MaxClients

InstanceInv ==
  /\ InstanceTypes /\ OwnerHoldsLock /\ ConnectedOnce /\ AcknowledgedIsOver /\ TableIsBounded

-----------------------------------------------------------------------------
(* The single instance: lemmas.                                            *)

\* The first state satisfies the invariant.
LEMMA InstanceInvInit == ASSUME InstanceAssumption PROVE Init => InstanceInv
<1>1. ASSUME Init PROVE Clients = {}
  BY <1>1 DEF Init, Clients
<1>2. Cardinality({}) = 0
  BY FS_EmptySet
<1>3. ASSUME Init PROVE TableIsBounded
  BY <1>1, <1>2, <1>3 DEF TableIsBounded, InstanceAssumption
<1>4. ASSUME Init PROVE InstanceTypes /\ OwnerHoldsLock /\ ConnectedOnce /\ AcknowledgedIsOver
  BY <1>4 DEF Init, InstanceTypes, OwnerHoldsLock, ConnectedOnce, AcknowledgedIsOver,
     Stages, Owning, Running, Connections
<1> QED BY <1>3, <1>4 DEF InstanceInv

\* The invariant says what OneOwner does.
LEMMA InstanceInvMeans == InstanceInv => OneOwner
  BY DEF InstanceInv, OneOwner, InstanceTypes, TypeOK, Connections, AcknowledgedIsOver, TableIsBounded

\* A table that does not grow keeps its bound.
LEMMA SmallerTable ==
  ASSUME InstanceAssumption, TableIsBounded, Clients' \subseteq Clients
  PROVE  TableIsBounded'
<1>1. IsFiniteSet(Clients)
  <2>1. Clients \in SUBSET Procs BY DEF Clients
  <2> QED BY <2>1, FS_Subset DEF InstanceAssumption
<1>2. IsFiniteSet(Clients') /\ Cardinality(Clients') <= Cardinality(Clients)
  BY <1>1, FS_Subset
<1>3. Cardinality(Clients) \in Nat /\ Cardinality(Clients') \in Nat
  BY <1>1, <1>2, FS_CardinalityType
<1> QED BY <1>2, <1>3 DEF TableIsBounded, InstanceAssumption

\* The end of a process, wherever it was.
LEMMA ExitStep ==
  ASSUME InstanceAssumption, InstanceInv, NEW p \in Procs, NEW r, Exit(p, r),
         lock = p \/ pc[p] \notin Owning
  PROVE  InstanceInv'
<1> USE DEF InstanceInv
<1>1. InstanceTypes'
  BY DEF InstanceTypes, Exit, Go, Stages, Connections
<1>2. OwnerHoldsLock'
  BY DEF InstanceTypes, Exit, Go, OwnerHoldsLock, Owning, Running, InstanceAssumption
<1>3. ConnectedOnce'
  BY DEF InstanceTypes, Exit, Go, ConnectedOnce
<1>4. AcknowledgedIsOver'
  BY DEF InstanceTypes, Exit, AcknowledgedIsOver
<1>5. Clients' \subseteq Clients
  BY DEF InstanceTypes, Exit, Clients
<1> QED BY <1>1, <1>2, <1>3, <1>4, <1>5, SmallerTable

\* Starting: the lock, the server, the connection and the message.
LEMMA StartStep ==
  ASSUME InstanceAssumption, InstanceInv, NEW p \in Procs, Start(p)
  PROVE  InstanceInv'
<1> USE DEF InstanceInv
<1>1. CASE TryLock(p)
  <2> USE <1>1 DEF TryLock, Go, Wire
  <2>1. InstanceTypes' BY DEF InstanceTypes, Stages, Owning
  <2>2. OwnerHoldsLock'
    BY DEF InstanceTypes, OwnerHoldsLock, Owning, Running, InstanceAssumption
  <2>3. ConnectedOnce' BY DEF InstanceTypes, ConnectedOnce
  <2>4. AcknowledgedIsOver' BY DEF AcknowledgedIsOver
  <2>5. Clients' \subseteq Clients BY DEF Clients
  <2> QED BY <2>1, <2>2, <2>3, <2>4, <2>5, SmallerTable
<1>2. CASE Listen(p)
  <2> USE <1>2 DEF Listen, Go, Wire
  <2>1. InstanceTypes' BY DEF InstanceTypes, Stages, Owning
  <2>2. OwnerHoldsLock'
    BY DEF InstanceTypes, OwnerHoldsLock, Owning, Running, InstanceAssumption
  <2>3. ConnectedOnce' BY DEF InstanceTypes, ConnectedOnce
  <2>4. AcknowledgedIsOver' BY DEF AcknowledgedIsOver
  <2>5. Clients' \subseteq Clients BY DEF Clients
  <2> QED BY <2>1, <2>2, <2>3, <2>4, <2>5, SmallerTable
<1>3. CASE Connect(p)
  <2> USE <1>3 DEF Connect, Go
  <2>1. InstanceTypes' BY DEF InstanceTypes, Stages, Connections
  <2>2. OwnerHoldsLock' BY DEF InstanceTypes, OwnerHoldsLock, Owning, Running
  <2>3. ConnectedOnce' BY DEF InstanceTypes, ConnectedOnce
  <2>4. AcknowledgedIsOver' BY DEF InstanceTypes, ConnectedOnce, AcknowledgedIsOver
  <2>5. Clients' \subseteq Clients BY DEF InstanceTypes, Clients
  <2> QED BY <2>1, <2>2, <2>3, <2>4, <2>5, SmallerTable
<1>4. CASE WriteMessage(p)
  <2> USE <1>4 DEF WriteMessage
  <2>1. InstanceTypes' BY DEF InstanceTypes
  <2>2. OwnerHoldsLock' BY DEF OwnerHoldsLock
  <2>3. ConnectedOnce' BY DEF ConnectedOnce
  <2>4. AcknowledgedIsOver' BY DEF AcknowledgedIsOver
  <2>5. Clients' \subseteq Clients BY DEF Clients
  <2> QED BY <2>1, <2>2, <2>3, <2>4, <2>5, SmallerTable
<1>5. CASE LockUnavailable(p)
  BY <1>5, ExitStep DEF LockUnavailable, Owning, Running
<1>6. CASE ListenFails(p)
  BY <1>6, ExitStep DEF ListenFails, Owning, OwnerHoldsLock
<1>7. CASE ConnectTimesOut(p)
  BY <1>7, ExitStep DEF ConnectTimesOut, Owning, Running
<1>8. CASE ReadAnswer(p)
  BY <1>8, ExitStep DEF ReadAnswer, Owning, Running
<1>9. CASE AnswerTimesOut(p)
  BY <1>9, ExitStep DEF AnswerTimesOut, Owning, Running
<1> QED BY <1>1, <1>2, <1>3, <1>4, <1>5, <1>6, <1>7, <1>8, <1>9 DEF Start

\* A session that is cleaned up, or kept as terminal, changes nothing else.
LEMMA CleanedStep ==
  ASSUME InstanceAssumption, InstanceInv, NEW c \in Clients, NEW ok, Cleaned(c, ok),
         UNCHANGED <<pc, lock, server>>, sent' = sent,
         reply' \in [Procs -> {"none", "ack", "busy", "reject"}],
         shown' = shown, queued' = queued \/ (queued' = queued \cup {c} /\ conn[c] = "open")
  PROVE  InstanceInv'
<1> USE DEF InstanceInv, Cleaned
<1>0. c \in Procs /\ conn[c] \in {"open", "expired", "terminal"}
  BY DEF Clients
<1>1. InstanceTypes' BY <1>0 DEF InstanceTypes, Connections
<1>2. OwnerHoldsLock' BY DEF OwnerHoldsLock
<1>3. ConnectedOnce' BY <1>0 DEF InstanceTypes, ConnectedOnce
<1>4. AcknowledgedIsOver' BY <1>0 DEF InstanceTypes, AcknowledgedIsOver
<1>5. Clients' \subseteq Clients BY DEF InstanceTypes, Clients
<1> QED BY <1>1, <1>2, <1>3, <1>4, <1>5, SmallerTable

\* Serving: what the owner's event loop does with clients and activations.
LEMMA ServeStep ==
  ASSUME InstanceAssumption, InstanceInv, NEW p \in Procs, Serve(p)
  PROVE  InstanceInv'
<1> USE DEF InstanceInv
<1>1. CASE Activate(p)
  <2> USE <1>1 DEF Activate, OwnerOnly
  <2>1. InstanceTypes' BY DEF InstanceTypes
  <2>2. OwnerHoldsLock' BY DEF OwnerHoldsLock
  <2>3. ConnectedOnce' BY DEF ConnectedOnce
  <2>4. AcknowledgedIsOver' BY DEF AcknowledgedIsOver
  <2>5. Clients' \subseteq Clients BY DEF Clients
  <2> QED BY <2>1, <2>2, <2>3, <2>4, <2>5, SmallerTable
<1>2. ASSUME NEW c \in Procs, Accept(p, c) PROVE InstanceInv'
  <2> USE <1>2 DEF Accept, OwnerOnly
  <2>1. InstanceTypes' BY DEF InstanceTypes, Connections
  <2>2. OwnerHoldsLock' BY DEF OwnerHoldsLock
  <2>3. ConnectedOnce' BY DEF InstanceTypes, ConnectedOnce
  <2>4. AcknowledgedIsOver' BY DEF InstanceTypes, AcknowledgedIsOver
  <2>5. CASE Cardinality(Clients) >= MaxClients
    <3>1. Clients' \subseteq Clients BY <2>5 DEF InstanceTypes, Clients
    <3> QED BY <2>1, <2>2, <2>3, <2>4, <3>1, SmallerTable
  <2>6. CASE ~(Cardinality(Clients) >= MaxClients)
    <3>1. Clients' = Clients \cup {c} /\ c \notin Clients
      BY <2>6 DEF InstanceTypes, Clients
    <3>2. IsFiniteSet(Clients)
      <4>1. Clients \in SUBSET Procs BY DEF Clients
      <4> QED BY <4>1, FS_Subset DEF InstanceAssumption
    <3>3. Cardinality(Clients) \in Nat /\ Cardinality(Clients') = Cardinality(Clients) + 1
      BY <3>1, <3>2, FS_AddElement, FS_CardinalityType
    <3>4. TableIsBounded' BY <2>6, <3>3 DEF TableIsBounded, InstanceAssumption
    <3> QED BY <2>1, <2>2, <2>3, <2>4, <3>4
  <2> QED BY <2>5, <2>6
<1>3. ASSUME NEW c \in Procs, ReadClient(p, c) PROVE InstanceInv'
  <2>1. PICK ok \in MayClean : Cleaned(c, ok) BY <1>3 DEF ReadClient
  <2>2. c \in Clients /\ conn[c] = "open" BY <1>3 DEF ReadClient, Clients
  <2>3. reply' \in [Procs -> {"none", "ack", "busy", "reject"}]
    BY <1>3 DEF ReadClient, InstanceTypes, AnswerFor
  <2> QED BY <1>3, <2>1, <2>2, <2>3, CleanedStep DEF ReadClient, OwnerOnly
<1>4. ASSUME NEW c \in Procs, Expire(p, c) PROVE InstanceInv'
  <2> USE <1>4 DEF Expire, OwnerOnly
  <2>1. InstanceTypes' BY DEF InstanceTypes, Connections
  <2>2. OwnerHoldsLock' BY DEF OwnerHoldsLock
  <2>3. ConnectedOnce' BY DEF InstanceTypes, ConnectedOnce
  <2>4. AcknowledgedIsOver' BY DEF InstanceTypes, AcknowledgedIsOver
  <2>5. Clients' \subseteq Clients BY DEF InstanceTypes, Clients
  <2> QED BY <2>1, <2>2, <2>3, <2>4, <2>5, SmallerTable
<1>5. ASSUME NEW c \in Procs, FinishExpired(p, c) PROVE InstanceInv'
  <2>1. PICK ok \in MayClean : Cleaned(c, ok) BY <1>5 DEF FinishExpired
  <2>2. c \in Clients BY <1>5 DEF FinishExpired, Clients
  <2>3. reply' \in [Procs -> {"none", "ack", "busy", "reject"}]
    BY <1>5 DEF FinishExpired, InstanceTypes
  <2> QED BY <1>5, <2>1, <2>2, <2>3, CleanedStep DEF FinishExpired, OwnerOnly
<1>6. ASSUME NEW c \in Procs, Drop(p, c) PROVE InstanceInv'
  <2>1. PICK ok \in MayClean : Cleaned(c, ok) BY <1>6 DEF Drop
  <2>2. c \in Clients BY <1>6 DEF Drop
  <2>3. reply' \in [Procs -> {"none", "ack", "busy", "reject"}]
    BY <1>6 DEF Drop, InstanceTypes
  <2> QED BY <1>6, <2>1, <2>2, <2>3, CleanedStep DEF Drop, OwnerOnly
<1> QED BY <1>1, <1>2, <1>3, <1>4, <1>5, <1>6 DEF Serve

\* A process that moves on among the stages of an owner and keeps the lock.
LEMMA StageStep ==
  ASSUME InstanceAssumption, InstanceInv, NEW p \in Procs, pc[p] \in Owning,
         NEW stage \in Owning, Go(p, stage), UNCHANGED <<lock, code>>, UNCHANGED Wire,
         server' = server \/ server' = Nobody
  PROVE  InstanceInv'
<1> USE DEF InstanceInv, Go, Wire
<1>1. InstanceTypes' BY DEF InstanceTypes, Stages
<1>2. OwnerHoldsLock' BY DEF InstanceTypes, OwnerHoldsLock
<1>3. ConnectedOnce' BY DEF InstanceTypes, ConnectedOnce, Owning, Running
<1>4. AcknowledgedIsOver' BY DEF AcknowledgedIsOver
<1>5. Clients' \subseteq Clients BY DEF Clients
<1> QED BY <1>1, <1>2, <1>3, <1>4, <1>5, SmallerTable

\* Closing: the server, the clients, the lock, and the end of the process.
LEMMA EndStep ==
  ASSUME InstanceAssumption, InstanceInv, NEW p \in Procs, End(p)
  PROVE  InstanceInv'
<1> USE DEF InstanceInv
<1>1. CASE ShutdownSucceeds(p)
  BY <1>1, StageStep DEF ShutdownSucceeds, Owning, Running
<1>2. CASE CloseServer(p)
  BY <1>2, StageStep DEF CloseServer, Owning
<1>3. CASE CloseClients(p)
  <2>1. PICK kept \in SUBSET Clients :
          conn' = [q \in Procs |-> IF conn[q] = "none" THEN "none" ELSE IF q \in kept THEN "terminal" ELSE "gone"]
    BY <1>3 DEF CloseClients
  <2> USE <1>3 DEF CloseClients, Go
  <2>2. InstanceTypes' BY <2>1 DEF InstanceTypes, Stages, Connections, Owning
  <2>3. OwnerHoldsLock' BY DEF InstanceTypes, OwnerHoldsLock, Owning
  <2>4. ConnectedOnce' BY <2>1 DEF InstanceTypes, ConnectedOnce
  <2>5. AcknowledgedIsOver' BY <2>1 DEF InstanceTypes, AcknowledgedIsOver
  <2>6. Clients' \subseteq Clients BY <2>1 DEF Clients
  <2> QED BY <2>2, <2>3, <2>4, <2>5, <2>6, SmallerTable
<1>4. CASE Unlock(p)
  <2> USE <1>4 DEF Unlock, Go, Wire
  <2>1. InstanceTypes' BY DEF InstanceTypes, Stages
  <2>2. OwnerHoldsLock' BY DEF InstanceTypes, OwnerHoldsLock, Owning, Running
  <2>3. ConnectedOnce' BY DEF InstanceTypes, ConnectedOnce
  <2>4. AcknowledgedIsOver' BY DEF AcknowledgedIsOver
  <2>5. Clients' \subseteq Clients BY DEF Clients
  <2> QED BY <2>1, <2>2, <2>3, <2>4, <2>5, SmallerTable
<1>5. CASE Quit(p)
  BY <1>5, ExitStep DEF Quit, Owning, Running
<1> QED BY <1>1, <1>2, <1>3, <1>4, <1>5 DEF End

\* Every step keeps the invariant.
LEMMA InstanceInvStep ==
  ASSUME InstanceAssumption, InstanceInv, [Next]_vars
  PROVE  InstanceInv'
<1>1. ASSUME NEW p \in Procs,
             Start(p) \/ Serve(p) \/ EventLoopStarts(p) \/ BuildFails(p) \/ BeginClose(p)
               \/ ShutdownFails(p) \/ End(p) \/ Crash(p)
      PROVE InstanceInv'
  <2>1. CASE Start(p) BY <2>1, StartStep
  <2>2. CASE Serve(p) BY <2>2, ServeStep
  <2>3. CASE EventLoopStarts(p)
    BY <2>3, StageStep DEF EventLoopStarts, Owning, Running
  <2>4. CASE BuildFails(p)
    BY <2>4, ExitStep DEF BuildFails, Owning, OwnerHoldsLock, InstanceInv
  <2>5. CASE BeginClose(p)
    BY <2>5, StageStep DEF BeginClose, Owning, Running
  <2>6. CASE ShutdownFails(p)
    BY <2>6, StageStep DEF ShutdownFails, Owning, Running
  <2>7. CASE End(p) BY <2>7, EndStep
  <2>8. CASE Crash(p)
    BY <2>8, ExitStep DEF Crash, OwnerHoldsLock, InstanceInv
  <2> QED BY <1>1, <2>1, <2>2, <2>3, <2>4, <2>5, <2>6, <2>7, <2>8
<1>2. CASE UNCHANGED vars
  <2> USE <1>2 DEF vars, InstanceInv
  <2>1. InstanceTypes' BY DEF InstanceTypes
  <2>2. OwnerHoldsLock' BY DEF OwnerHoldsLock
  <2>3. ConnectedOnce' BY DEF ConnectedOnce
  <2>4. AcknowledgedIsOver' BY DEF AcknowledgedIsOver
  <2>5. Clients' \subseteq Clients BY DEF Clients
  <2> QED BY <2>1, <2>2, <2>3, <2>4, <2>5, SmallerTable
<1> QED BY <1>1, <1>2 DEF Next

-----------------------------------------------------------------------------
(* The single instance: theorems.                                          *)

\* However starts, failures of close() and ends of processes interleave, who
\* serves or builds the application holds the lock file, the server's table of
\* clients keeps its bound and no activation is shown twice.
THEOREM OneOwnerAlways == ASSUME InstanceAssumption PROVE Spec => []OneOwner
<1>1. Init => InstanceInv BY InstanceInvInit
<1>2. InstanceInv /\ [Next]_vars => InstanceInv' BY InstanceInvStep
<1>3. InstanceInv => OneOwner BY InstanceInvMeans
<1> QED BY <1>1, <1>2, <1>3, PTL DEF Spec

\* No step of an owner that is closing acknowledges a start: the closing probe
\* of _read_client decides for the one process that serves.
THEOREM ClosingRefuses ==
  ASSUME InstanceAssumption PROVE Spec => [][ClosingAcknowledgesNobody]_vars
<1>1. ASSUME NEW p \in Procs, NEW c \in Procs, pc[p] = "closing", server = p, reply[c] # "ack",
             InstanceInv, [Next]_vars
      PROVE  reply'[c] # "ack"
  <2> USE <1>1 DEF InstanceInv, InstanceTypes
  <2>1. CASE UNCHANGED vars BY <2>1 DEF vars
  <2>2. ASSUME NEW q \in Procs, NEW d \in Procs, Accept(q, d) PROVE reply'[c] # "ack"
    BY <2>2 DEF Accept
  <2>3. ASSUME NEW q \in Procs, NEW d \in Procs, ReadClient(q, d) PROVE reply'[c] # "ack"
    <3>1. q = p BY <2>3 DEF ReadClient, Serves
    <3> QED BY <2>3, <3>1 DEF ReadClient, AnswerFor
  <2>4. ASSUME NEW q \in Procs, NEW d \in Procs, Expire(q, d) \/ FinishExpired(q, d) \/ Drop(q, d)
        PROVE  reply' = reply
    BY <2>4 DEF Expire, FinishExpired, Drop
  <2>5. ASSUME NEW q \in Procs, Start(q) PROVE reply' = reply
    BY <2>5 DEF Start, TryLock, LockUnavailable, Listen, ListenFails, Connect, ConnectTimesOut,
       WriteMessage, ReadAnswer, AnswerTimesOut, Exit, Wire
  <2>6. ASSUME NEW q \in Procs, End(q) PROVE reply' = reply
    BY <2>6 DEF End, ShutdownSucceeds, CloseServer, CloseClients, Unlock, Quit, Exit, Wire
  <2>7. ASSUME NEW q \in Procs,
               Activate(q) \/ EventLoopStarts(q) \/ BuildFails(q) \/ BeginClose(q) \/ ShutdownFails(q) \/ Crash(q)
        PROVE  reply' = reply
    BY <2>7 DEF Activate, EventLoopStarts, BuildFails, BeginClose, ShutdownFails, Crash, Exit, Wire
  <2> QED BY <2>1, <2>2, <2>3, <2>4, <2>5, <2>6, <2>7 DEF Next, Serve
<1>2. InstanceInv /\ [Next]_vars => ClosingAcknowledgesNobody
  BY <1>1 DEF ClosingAcknowledgesNobody
<1>3. Init => InstanceInv BY InstanceInvInit
<1>4. InstanceInv /\ [Next]_vars => InstanceInv' BY InstanceInvStep
<1> QED BY <1>2, <1>3, <1>4, PTL DEF Spec

-----------------------------------------------------------------------------
(* The application shell: the inductive invariant.                         *)

\* The evidence is still written.
Live(r) == Diagnosed /\ ~r.terminal /\ ~r.failed

\* The stage may follow the last one.
Follows(stage, before) ==
  stage = before + 1 \/ (stage = RuntimeReadyStage /\ before = TrayCreated) \/ stage = FailedSafe

Recorder == [events : Seq(Started..FailedSafe), order : 0..Closed, terminal : BOOLEAN, failed : BOOLEAN]

\* No gap, and as long as it is written the evidence ends with the order reached.
NoGap(r) ==
  \A i \in DOMAIN r.events :
    LET before == IF i = 1 THEN 0 ELSE r.events[i - 1] IN
    \/ r.events[i] = before + 1
    \/ r.events[i] = RuntimeReadyStage /\ before = TrayCreated
    \/ r.events[i] = FailedSafe /\ i = Len(r.events)

EndsWithOrder(r) ==
  Live(r) => IF r.order = 0 THEN r.events = <<>>
             ELSE /\ r.events # <<>> /\ r.events[Len(r.events)] = r.order
                  /\ r.order < Closed

RecorderOK(r) == r \in Recorder /\ NoGap(r) /\ EndsWithOrder(r)

\* The order main has reached.
OrderOfMain ==
  Live(rec) =>
    /\ main = "arguments" => rec.order = 0
    /\ main = "instance" => rec.order = ArgumentsValidated
    /\ main = "compose" => rec.order = RuntimeStarting
    /\ main = "tray" => rec.order = SettingsLoaded
    /\ main \in {"loop", "quitting"} =>
         IF obs.ready THEN rec.order = ApplicationReady
         ELSE ~obs.runtime /\ rec.order \in {TrayCreated, TrayVisible}
    /\ main # "ended"

\* A closed timeline passed through ready.
ClosedAfterReady == InEvidence(Closed, rec) => InEvidence(ApplicationReady, rec)

\* The observer lives with the event loop, and the runtime gets ready once.
ObserverOK ==
  /\ main \in {"arguments", "instance", "compose", "tray"} => ~obs.runtime /\ ~obs.ready
  /\ main # "ended" => ~obs.closing
  /\ main \in {"loop", "quitting"} => obs.made = Diagnosed
  /\ obs.ready => obs.runtime
  /\ runtimeBridge.state = "starting" => ~obs.runtime

\* Before the event loop nothing is closing; in it nothing is closed.
NothingCloses ==
  /\ main \in {"arguments", "instance", "compose", "tray"} =>
       ~pet.exitEmitted /\ ~win.closing /\ ~runtimeBridge.shutting
  /\ main = "tray" => pet.life = "running" /\ pet.timer
  /\ main \in {"arguments", "instance", "compose", "tray", "loop"} =>
       saves = 0 /\ ~tray.closed /\ ~tray.shutStarted /\ ~pet.final

-----------------------------------------------------------------------------
(* The evidence.                                                           *)

\* The record n follows r: no gap, written on only if r was, and then its order is the last stage.
Extends(n, r, last, stages) ==
  /\ RecorderOK(n)
  /\ Live(n) => Live(r) /\ n.order = last /\ last < Closed
  /\ \A s : InEvidence(s, n) => InEvidence(s, r) \/ (Live(r) /\ s \in stages)
  /\ \A s : InEvidence(s, r) => InEvidence(s, n)

\* Recording a stage that may follow keeps the evidence without a gap; it is
\* written on only if it was, and then the order is the stage.
LEMMA RecordOnce ==
  ASSUME NEW r, RecorderOK(r), NEW stage \in Started..FailedSafe, NEW ok \in BOOLEAN,
         Live(r) => Follows(stage, r.order)
  PROVE  Extends(Recorded(r, stage, ok), r, stage, {stage})
<1> DEFINE n == Recorded(r, stage, ok)
<1> SUFFICES /\ RecorderOK(n)
             /\ Live(n) => Live(r) /\ n.order = stage /\ stage < Closed
             /\ \A s : InEvidence(s, n) => InEvidence(s, r) \/ (Live(r) /\ s = stage)
             /\ \A s : InEvidence(s, r) => InEvidence(s, n)
  BY Zenon DEF Extends
<1> USE DEF Started, FailedSafe, Closed, RuntimeReadyStage, TrayCreated
<1>1. r \in Recorder /\ NoGap(r) /\ EndsWithOrder(r)
  BY DEF RecorderOK
<1>2. CASE ~Live(r) \/ (stage # FailedSafe /\ stage <= r.order)
  <2>1. n = r
    BY <1>2 DEF Recorded, Live
  <2>2. ~Live(r)
    BY <1>1, <1>2, SMT DEF Follows, Recorder
  <2> QED
    BY <2>1, <2>2
<1>3. CASE Live(r) /\ ~(stage # FailedSafe /\ stage <= r.order)
  <2>0. Live(r) /\ Diagnosed /\ ~r.terminal /\ ~r.failed
    BY <1>3 DEF Live
  <2>1. CASE ~ok
    <3>1. n = [r EXCEPT !.failed = TRUE, !.order = IF stage = FailedSafe THEN r.order ELSE stage]
      BY <1>3, <2>0, <2>1 DEF Recorded
    <3>2. stage # FailedSafe => stage \in 0..Closed
      BY SMT
    <3>3. n \in Recorder /\ n.events = r.events /\ n.failed
      BY <1>1, <3>1, <3>2 DEF Recorder
    <3>4. ~Live(n)
      BY <3>3 DEF Live
    <3> QED
      BY <1>1, <3>3, <3>4 DEF RecorderOK, NoGap, EndsWithOrder, InEvidence
  <2>2. CASE ok
    <3>1. n = [r EXCEPT !.events = Append(r.events, stage),
                        !.order = IF stage = FailedSafe THEN r.order ELSE stage,
                        !.terminal = stage \in {Closed, FailedSafe}]
      BY <1>3, <2>0, <2>2 DEF Recorded
    <3>2. stage # FailedSafe => stage \in 0..Closed
      BY SMT
    <3>3. /\ n \in Recorder /\ n.events = Append(r.events, stage) /\ ~n.failed
          /\ n.order = IF stage = FailedSafe THEN r.order ELSE stage
          /\ n.terminal = (stage \in {Closed, FailedSafe})
      <4>1. Append(r.events, stage) \in Seq(Started..FailedSafe)
        BY <1>1 DEF Recorder
      <4>2. (stage \in {Closed, FailedSafe}) \in BOOLEAN
        OBVIOUS
      <4>3. (IF stage = FailedSafe THEN r.order ELSE stage) \in 0..Closed
        BY <1>1, <3>2 DEF Recorder
      <4> QED
        BY <1>1, <2>0, <3>1, <4>1, <4>2, <4>3, Zenon DEF Recorder
    <3>4. /\ r.events \in Seq(Started..FailedSafe) /\ Len(r.events) \in Nat
          /\ Len(n.events) = Len(r.events) + 1
          /\ DOMAIN r.events = 1..Len(r.events) /\ DOMAIN n.events = 1..(Len(r.events) + 1)
          /\ \A i \in 1..Len(r.events) : n.events[i] = r.events[i]
          /\ n.events[Len(r.events) + 1] = stage
      BY <1>1, <3>3 DEF Recorder
    <3>5. Follows(stage, r.order) /\ r.order \in 0..Closed
      BY <1>1, <2>0 DEF Recorder
    <3>6. \A i \in 1..Len(r.events) : r.events[i] # FailedSafe \/ i < Len(r.events)
      BY <1>1, <2>0, <3>4, <3>5, SMT DEF EndsWithOrder
    <3>7. r.order = IF Len(r.events) = 0 THEN 0 ELSE r.events[Len(r.events)]
      BY <1>1, <2>0, <3>4, <3>5, SMT DEF EndsWithOrder
    <3>8. NoGap(n)
      <4> SUFFICES ASSUME NEW i \in 1..(Len(r.events) + 1)
                   PROVE  LET before == IF i = 1 THEN 0 ELSE n.events[i - 1] IN
                          \/ n.events[i] = before + 1
                          \/ n.events[i] = RuntimeReadyStage /\ before = TrayCreated
                          \/ n.events[i] = FailedSafe /\ i = Len(n.events)
        BY <3>4 DEF NoGap
      <4>1. CASE i = Len(r.events) + 1
        BY <3>4, <3>5, <3>7, <4>1, SMT DEF Follows
      <4>2. CASE i # Len(r.events) + 1
        <5>1. i \in 1..Len(r.events) /\ (i # 1 => i - 1 \in 1..Len(r.events))
          BY <3>4, <4>2, SMT
        <5>2. \/ r.events[i] = (IF i = 1 THEN 0 ELSE r.events[i - 1]) + 1
              \/ r.events[i] = RuntimeReadyStage /\ (IF i = 1 THEN 0 ELSE r.events[i - 1]) = TrayCreated
              \/ r.events[i] = FailedSafe /\ i = Len(r.events)
          BY <1>1, <3>4, <5>1 DEF NoGap
        <5>3. n.events[i] = r.events[i] /\ (i # 1 => n.events[i - 1] = r.events[i - 1])
          BY <3>4, <5>1
        <5>4. ~(r.events[i] = FailedSafe /\ i = Len(r.events))
          BY <3>4, <3>6, <5>1, SMT
        <5> QED
          BY <5>2, <5>3, <5>4
      <4> QED
        BY <4>1, <4>2
    <3>9. Live(n) => stage < Closed /\ n.order = stage
      <4>1. Live(n) => stage \notin {Closed, FailedSafe}
        BY <3>3, Zenon DEF Live
      <4>2. stage \notin {Closed, FailedSafe} => stage < Closed
        BY SMT
      <4> QED
        BY <3>3, <4>1, <4>2
    <3>10. EndsWithOrder(n)
      <4>1. Len(n.events) = Len(r.events) + 1 /\ n.events[Len(n.events)] = stage
        BY <3>4
      <4>2. n.events # <<>> /\ stage # 0
        <5>1. Len(n.events) # 0
          BY <3>4, SMT
        <5>2. Len(<<>>) = 0
          OBVIOUS
        <5>3. stage # 0
          BY SMT
        <5> QED
          BY <5>1, <5>2, <5>3
      <4> QED
        BY <3>9, <4>1, <4>2, Zenon DEF EndsWithOrder
    <3>11. \A s : InEvidence(s, n) => InEvidence(s, r) \/ s = stage
      <4> SUFFICES ASSUME NEW s, NEW i \in 1..(Len(r.events) + 1), n.events[i] = s
                   PROVE  InEvidence(s, r) \/ s = stage
        BY <3>4 DEF InEvidence
      <4>1. i \in 1..Len(r.events) \/ i = Len(r.events) + 1
        BY <3>4, SMT
      <4> QED
        BY <3>4, <4>1 DEF InEvidence
    <3>12. \A s : InEvidence(s, r) => InEvidence(s, n)
      <4>1. \A i \in 1..Len(r.events) : i \in 1..(Len(r.events) + 1)
        BY <3>4, SMT
      <4> QED
        BY <3>4, <4>1 DEF InEvidence
    <3> QED
      BY <2>0, <3>3, <3>8, <3>9, <3>10, <3>11, <3>12 DEF RecorderOK
  <2> QED
    BY <2>1, <2>2
<1> QED
  BY <1>2, <1>3

\* The same for the stages of an event: the second follows the first.
LEMMA RecordTwice ==
  ASSUME NEW r, RecorderOK(r), NEW fails, NEW a \in Started..FailedSafe, NEW b \in Started..FailedSafe,
         Live(r) => Follows(a, r.order), Follows(b, a)
  PROVE  Extends(RecordedTwo(r, a, b, fails), r, b, {a, b})
<1> DEFINE m == RecordedOne(r, a, fails)
<1> DEFINE n == RecordedTwo(r, a, b, fails)
<1>1. Extends(m, r, a, {a})
  BY RecordOnce, (fails # 1) \in BOOLEAN DEF RecordedOne
<1>2. RecorderOK(m) /\ (Live(m) => Follows(b, m.order))
  BY <1>1 DEF Extends
<1> HIDE DEF m
<1>3. n = Recorded(m, b, fails # 2)
  BY DEF RecordedTwo, m
<1> HIDE DEF n
<1>4. Extends(n, m, b, {b})
  <2>1. ASSUME NEW ok \in BOOLEAN
        PROVE  Extends(Recorded(m, b, ok), m, b, {b})
    BY <1>2, RecordOnce
  <2>2. (fails # 2) \in BOOLEAN
    OBVIOUS
  <2> QED
    BY <1>3, <2>1, <2>2
<1> QED
  BY <1>1, <1>4, Zenon DEF n, Extends

\* And for three.
LEMMA RecordThrice ==
  ASSUME NEW r, RecorderOK(r), NEW fails, NEW a \in Started..FailedSafe, NEW b \in Started..FailedSafe,
         NEW c \in Started..FailedSafe,
         Live(r) => Follows(a, r.order), Follows(b, a), Follows(c, b)
  PROVE  Extends(RecordedThree(r, a, b, c, fails), r, c, {a, b, c})
<1> DEFINE m == RecordedTwo(r, a, b, fails)
<1> DEFINE n == RecordedThree(r, a, b, c, fails)
<1>1. Extends(m, r, b, {a, b})
  BY RecordTwice
<1>2. RecorderOK(m) /\ (Live(m) => Follows(c, m.order))
  BY <1>1 DEF Extends
<1> HIDE DEF m
<1>3. n = Recorded(m, c, fails # 3)
  BY DEF RecordedThree, m
<1> HIDE DEF n
<1>4. Extends(n, m, c, {c})
  <2>1. ASSUME NEW ok \in BOOLEAN
        PROVE  Extends(Recorded(m, c, ok), m, c, {c})
    BY <1>2, RecordOnce
  <2>2. (fails # 3) \in BOOLEAN
    OBVIOUS
  <2> QED
    BY <1>3, <2>1, <2>2
<1> QED
  BY <1>1, <1>4, Zenon DEF n, Extends

EvidenceInv == RecorderOK(rec) /\ OrderOfMain /\ ClosedAfterReady /\ ObserverOK

\* Ready is recorded in a state that is ready.
ReadyWhenReady ==
  InEvidence(ApplicationReady, rec') /\ ~InEvidence(ApplicationReady, rec)
    => runtimeBridge'.state = "ready" /\ pet.visible /\ tray.view = "held"

\* A step that records nothing keeps the evidence sound.
LEMMA EvidenceRests ==
  ASSUME ShellTypeOK, EvidenceInv, UNCHANGED <<rec, obs>>,
         main' = main \/ (main = "loop" /\ main' = "quitting"),
         runtimeBridge'.state = "starting" => runtimeBridge.state = "starting"
  PROVE  EvidenceInv' /\ ReadyWhenReady
<1>1. RecorderOK(rec)' /\ ClosedAfterReady' /\ ReadyWhenReady
  BY Zenon DEF EvidenceInv, ClosedAfterReady, RecorderOK, EndsWithOrder, NoGap, Live, InEvidence, ReadyWhenReady
<1>2. OrderOfMain'
  BY DEF EvidenceInv, OrderOfMain, Live
<1>3. ObserverOK'
  BY DEF EvidenceInv, ObserverOK
<1> QED
  BY <1>1, <1>2, <1>3 DEF EvidenceInv

\* A step that records neither ready nor closed.
LEMMA EvidenceGrows ==
  ASSUME EvidenceInv, NEW last, NEW stages, Extends(rec', rec, last, stages),
         ApplicationReady \notin stages, Closed \notin stages
  PROVE  RecorderOK(rec)' /\ ClosedAfterReady' /\ ReadyWhenReady
BY Zenon DEF EvidenceInv, Extends, ClosedAfterReady, ReadyWhenReady

\* The stages main records together may follow one another.
LEMMA StagesOfMain ==
  /\ {Owner, CompositionRoot, RuntimeStarting, PetVisible, TrayCreated, TrayVisible, FailedSafe}
       \subseteq Started..FailedSafe
  /\ Follows(CompositionRoot, Owner) /\ Follows(RuntimeStarting, CompositionRoot)
  /\ Follows(TrayCreated, PetVisible) /\ Follows(TrayVisible, TrayCreated)
  /\ \A x : Follows(FailedSafe, x)
BY SMT DEF Follows, Started, Owner, CompositionRoot, RuntimeStarting, PetVisible, TrayCreated,
           TrayVisible, RuntimeReadyStage, FailedSafe

\* Failing safe may follow anything.
LEMMA RecordFailure ==
  ASSUME NEW r, RecorderOK(r), NEW fails
  PROVE  Extends(RecordedOne(r, FailedSafe, fails), r, FailedSafe, {FailedSafe})
<1>1. ASSUME NEW ok \in BOOLEAN PROVE Extends(Recorded(r, FailedSafe, ok), r, FailedSafe, {FailedSafe})
  BY RecordOnce, StagesOfMain
<1>2. (fails # 1) \in BOOLEAN
  OBVIOUS
<1> QED
  BY <1>1, <1>2 DEF RecordedOne

\* What the owner records.
LEMMA RecordOwner ==
  ASSUME NEW r, RecorderOK(r), NEW fails, Live(r) => Follows(Owner, r.order)
  PROVE  Extends(RecordedThree(r, Owner, CompositionRoot, RuntimeStarting, fails), r, RuntimeStarting,
                 {Owner, CompositionRoot, RuntimeStarting})
BY RecordThrice, StagesOfMain

\* What the observer records of a visible tray.
LEMMA RecordTray ==
  ASSUME NEW r, RecorderOK(r), NEW fails, Live(r) => Follows(PetVisible, r.order)
  PROVE  Extends(RecordedThree(r, PetVisible, TrayCreated, TrayVisible, fails), r, TrayVisible,
                 {PetVisible, TrayCreated, TrayVisible})
BY RecordThrice, StagesOfMain

\* Every step of main up to its event loop keeps the evidence sound.
LEMMA EvidenceOfMain ==
  ASSUME ShellTypeOK, EvidenceInv, NEW fails, NEW view \in {"held", "none", "raised"},
         \/ ReturnEarly(fails) \/ ParseArguments(fails) \/ BecomeOwner(fails)
         \/ MakePet(fails) \/ MakeTray(view, fails)
  PROVE  EvidenceInv' /\ ReadyWhenReady
<1> USE DEF Started, ArgumentsValidated, Owner, CompositionRoot, RuntimeStarting, PetCreated,
            SettingsLoaded, PetVisible, TrayCreated, TrayVisible, RuntimeReadyStage,
            ApplicationReady, Closing, Closed, FailedSafe
<1>a. RecorderOK(rec) /\ OrderOfMain /\ ClosedAfterReady /\ ObserverOK
  BY DEF EvidenceInv
<1>b. obs \in [made : BOOLEAN, runtime : BOOLEAN, ready : BOOLEAN, closing : BOOLEAN]
  BY DEF ShellTypeOK
<1>c. \A x : Follows(FailedSafe, x)
  BY DEF Follows
<1>1. CASE ReturnEarly(fails)
  <2>1. \E stages \in SUBSET {Started, FailedSafe} : Extends(rec', rec, FailedSafe, stages)
    <3>1. CASE main = "arguments"
      <4>1. Live(rec) => Follows(Started, rec.order)
        BY <1>a, <3>1, SMT DEF OrderOfMain, Follows
      <4>2. Extends(RecordedTwo(rec, Started, FailedSafe, fails), rec, FailedSafe, {Started, FailedSafe})
        BY <1>a, <1>c, <4>1, RecordTwice
      <4> QED
        BY <1>1, <3>1, <4>2 DEF ReturnEarly
    <3>2. CASE main # "arguments"
      <4>1. Extends(RecordedOne(rec, FailedSafe, fails), rec, FailedSafe, {FailedSafe})
        BY <1>a, RecordFailure
      <4> QED
        BY <1>1, <3>2, <4>1 DEF ReturnEarly
    <3> QED
      BY <3>1, <3>2
  <2>2. PICK stages \in SUBSET {Started, FailedSafe} : Extends(rec', rec, FailedSafe, stages)
    BY <2>1
  <2>3. ApplicationReady \notin stages /\ Closed \notin stages
    BY SMT
  <2>4. RecorderOK(rec)' /\ ClosedAfterReady' /\ ReadyWhenReady
    BY <2>2, <2>3, EvidenceGrows
  <2>5. ~Live(rec')
    BY <2>2, SMT DEF Extends
  <2>6. OrderOfMain'
    BY <2>5 DEF OrderOfMain, Live
  <2>7. ObserverOK'
    BY <1>1, <1>a, <1>b DEF ObserverOK, ReturnEarly, Rest
  <2> QED
    BY <2>4, <2>6, <2>7 DEF EvidenceInv
<1>2. CASE ParseArguments(fails)
  <2>1. Live(rec) => Follows(Started, rec.order)
    BY <1>2, <1>a, SMT DEF OrderOfMain, Follows, ParseArguments
  <2>2. Follows(ArgumentsValidated, Started)
    BY DEF Follows
  <2>3. Extends(RecordedTwo(rec, Started, ArgumentsValidated, fails), rec, ArgumentsValidated,
                {Started, ArgumentsValidated})
    BY <1>a, <2>1, <2>2, RecordTwice
  <2>4. Extends(rec', rec, ArgumentsValidated, {Started, ArgumentsValidated})
    BY <1>2, <2>3 DEF ParseArguments
  <2>5. RecorderOK(rec)' /\ ClosedAfterReady' /\ ReadyWhenReady
    BY <2>4, EvidenceGrows
  <2>6. OrderOfMain'
    BY <1>2, <2>4 DEF OrderOfMain, Extends, Live, ParseArguments
  <2>7. ObserverOK'
    BY <1>2, <1>a, <1>b DEF ObserverOK, ParseArguments, Rest
  <2> QED
    BY <2>5, <2>6, <2>7 DEF EvidenceInv
<1>3. CASE BecomeOwner(fails)
  <2>1. Live(rec) => Follows(Owner, rec.order)
    BY <1>3, <1>a, SMT DEF OrderOfMain, Follows, BecomeOwner
  <2>3. Extends(RecordedThree(rec, Owner, CompositionRoot, RuntimeStarting, fails), rec, RuntimeStarting,
                {Owner, CompositionRoot, RuntimeStarting})
    BY <1>a, <2>1, RecordOwner
  <2>4. Extends(rec', rec, RuntimeStarting, {Owner, CompositionRoot, RuntimeStarting})
    BY <1>3, <2>3 DEF BecomeOwner
  <2>5. RecorderOK(rec)' /\ ClosedAfterReady' /\ ReadyWhenReady
    BY <2>4, EvidenceGrows
  <2>6. OrderOfMain'
    BY <1>3, <2>4 DEF OrderOfMain, Extends, Live, BecomeOwner
  <2>7. ObserverOK'
    BY <1>3, <1>a, <1>b DEF ObserverOK, BecomeOwner, Rest
  <2> QED
    BY <2>5, <2>6, <2>7 DEF EvidenceInv
<1>4. CASE MakePet(fails)
  <2>1. Live(rec) => Follows(PetCreated, rec.order)
    BY <1>4, <1>a, SMT DEF OrderOfMain, Follows, MakePet
  <2>2. Follows(SettingsLoaded, PetCreated)
    BY DEF Follows
  <2>3. Extends(RecordedTwo(rec, PetCreated, SettingsLoaded, fails), rec, SettingsLoaded,
                {PetCreated, SettingsLoaded})
    BY <1>a, <2>1, <2>2, RecordTwice
  <2>4. Extends(rec', rec, SettingsLoaded, {PetCreated, SettingsLoaded})
    BY <1>4, <2>3 DEF MakePet
  <2>5. RecorderOK(rec)' /\ ClosedAfterReady' /\ ReadyWhenReady
    BY <2>4, EvidenceGrows
  <2>6. OrderOfMain'
    BY <1>4, <2>4 DEF OrderOfMain, Extends, Live, MakePet
  <2>7. ObserverOK'
    BY <1>4, <1>a, <1>b DEF ObserverOK, MakePet, Rest
  <2> QED
    BY <2>5, <2>6, <2>7 DEF EvidenceInv
<1>5. CASE MakeTray(view, fails)
  <2>1. Live(rec) => Follows(PetVisible, rec.order)
    BY <1>5, <1>a, SMT DEF OrderOfMain, Follows, MakeTray
  <2>2. Follows(TrayCreated, PetVisible)
    BY DEF Follows
  <2>3. /\ Extends(RecordedThree(rec, PetVisible, TrayCreated, TrayVisible, fails), rec, TrayVisible,
                   {PetVisible, TrayCreated, TrayVisible})
        /\ Extends(RecordedTwo(rec, PetVisible, TrayCreated, fails), rec, TrayCreated,
                   {PetVisible, TrayCreated})
    <3>1. Extends(RecordedThree(rec, PetVisible, TrayCreated, TrayVisible, fails), rec, TrayVisible,
                   {PetVisible, TrayCreated, TrayVisible})
      BY <1>a, <2>1, RecordTray
    <3>2. Extends(RecordedTwo(rec, PetVisible, TrayCreated, fails), rec, TrayCreated,
                   {PetVisible, TrayCreated})
      BY <1>a, <2>1, <2>2, RecordTwice
    <3> QED
      BY <3>1, <3>2
  <2>4. \/ Extends(rec', rec, TrayVisible, {PetVisible, TrayCreated, TrayVisible})
        \/ Extends(rec', rec, TrayCreated, {PetVisible, TrayCreated})
    BY <1>5, <2>3 DEF MakeTray
  <2>5. RecorderOK(rec)' /\ ClosedAfterReady' /\ ReadyWhenReady
    <3>1. CASE Extends(rec', rec, TrayVisible, {PetVisible, TrayCreated, TrayVisible})
      BY <3>1, EvidenceGrows
    <3>2. CASE Extends(rec', rec, TrayCreated, {PetVisible, TrayCreated})
      BY <3>2, EvidenceGrows
    <3> QED
      BY <2>4, <3>1, <3>2
  <2>6. Live(rec') => rec'.order \in {TrayCreated, TrayVisible}
    BY <2>4 DEF Extends
  <2>7. ~obs'.runtime /\ ~obs'.ready /\ ~obs'.closing /\ obs'.made = Diagnosed /\ main' = "loop"
    BY <1>5, <1>a, <1>b DEF ObserverOK, MakeTray
  <2>8. OrderOfMain'
    BY <2>6, <2>7 DEF OrderOfMain, Live
  <2>9. ObserverOK'
    BY <2>7 DEF ObserverOK
  <2> QED
    BY <2>5, <2>8, <2>9 DEF EvidenceInv
<1> QED
  BY <1>1, <1>2, <1>3, <1>4, <1>5

\* The runtime gets ready: the observer publishes ready or fails safe.
LEMMA EvidenceOfReady ==
  ASSUME ShellTypeOK, EvidenceInv, NEW fails, RuntimeReady(fails)
  PROVE  EvidenceInv' /\ ReadyWhenReady
<1>a. RecorderOK(rec) /\ OrderOfMain /\ ClosedAfterReady /\ ObserverOK
  BY DEF EvidenceInv
<1>b. /\ obs \in [made : BOOLEAN, runtime : BOOLEAN, ready : BOOLEAN, closing : BOOLEAN]
      /\ runtimeBridge \in [state : {"none", "new", "starting", "ready", "closing", "closed", "failed"},
                            shutting : BOOLEAN]
  BY DEF ShellTypeOK
<1>c. main = "loop" /\ main' = main /\ runtimeBridge.state = "starting" /\ runtimeBridge'.state = "ready"
  BY <1>b DEF RuntimeReady, InLoop
<1>d. ~obs.runtime /\ ~obs.ready /\ ~obs.closing /\ obs.made = Diagnosed
  BY <1>a, <1>c DEF ObserverOK
<1>1. CASE ~(obs.made /\ ~obs.closing)
  <2>1. UNCHANGED <<rec, obs>>
    BY <1>1 DEF RuntimeReady
  <2> QED
    BY <1>c, <2>1, EvidenceRests
<1>2. CASE obs.made /\ ~obs.closing
  <2>1. PICK inWorkspace \in BOOLEAN :
          /\ obs' = [obs EXCEPT !.runtime = TRUE, !.ready = UiReady(inWorkspace)]
          /\ rec' = RecordedTwo(rec, RuntimeReadyStage,
                                IF UiReady(inWorkspace) THEN ApplicationReady ELSE FailedSafe, fails)
    BY <1>2 DEF RuntimeReady
  <2>2. Live(rec) => Follows(RuntimeReadyStage, rec.order)
    BY <1>a, <1>c, <1>d, SMT DEF OrderOfMain, Follows, TrayCreated, TrayVisible, RuntimeReadyStage
  <2>3. /\ RuntimeReadyStage \in Started..FailedSafe /\ ApplicationReady \in Started..FailedSafe
        /\ FailedSafe \in Started..FailedSafe
        /\ Follows(ApplicationReady, RuntimeReadyStage) /\ Follows(FailedSafe, RuntimeReadyStage)
        /\ Closed \notin {RuntimeReadyStage, ApplicationReady, FailedSafe}
        /\ ApplicationReady \notin {RuntimeReadyStage, FailedSafe}
        /\ ~(FailedSafe < Closed)
    BY SMT DEF Follows, Started, FailedSafe, RuntimeReadyStage, ApplicationReady, TrayCreated, Closed
  <2>4. obs'.runtime /\ ~obs'.closing /\ obs'.made = Diagnosed /\ obs'.ready = UiReady(inWorkspace)
    BY <1>b, <1>d, <2>1 DEF UiReady
  <2>5. ObserverOK'
    BY <1>c, <2>4 DEF ObserverOK
  <2>6. CASE UiReady(inWorkspace)
    <3>1. Extends(RecordedTwo(rec, RuntimeReadyStage, ApplicationReady, fails), rec, ApplicationReady,
                  {RuntimeReadyStage, ApplicationReady})
      BY <1>a, <2>2, <2>3, RecordTwice
    <3>2. Extends(rec', rec, ApplicationReady, {RuntimeReadyStage, ApplicationReady})
      BY <2>1, <2>6, <3>1
    <3>3. RecorderOK(rec)' /\ ClosedAfterReady'
      BY <1>a, <2>3, <3>2, Zenon DEF Extends, ClosedAfterReady
    <3>4. OrderOfMain'
      BY <1>c, <2>4, <2>6, <3>2 DEF OrderOfMain, Extends
    <3>5. ReadyWhenReady
      BY <1>c, <2>6 DEF ReadyWhenReady, UiReady
    <3> QED
      BY <2>5, <3>3, <3>4, <3>5 DEF EvidenceInv
  <2>7. CASE ~UiReady(inWorkspace)
    <3>1. Extends(RecordedTwo(rec, RuntimeReadyStage, FailedSafe, fails), rec, FailedSafe,
                  {RuntimeReadyStage, FailedSafe})
      BY <1>a, <2>2, <2>3, RecordTwice
    <3>2. Extends(rec', rec, FailedSafe, {RuntimeReadyStage, FailedSafe})
      BY <2>1, <2>7, <3>1
    <3>3. RecorderOK(rec)' /\ ClosedAfterReady' /\ ReadyWhenReady
      BY <2>3, <3>2, EvidenceGrows
    <3>4. OrderOfMain'
      BY <2>3, <3>2 DEF OrderOfMain, Extends
    <3> QED
      BY <2>5, <3>3, <3>4 DEF EvidenceInv
  <2> QED
    BY <2>6, <2>7
<1> QED
  BY <1>1, <1>2

\* The process quits: the timeline is closed if it was ready, and fails safe if not.
LEMMA EvidenceOfQuit ==
  ASSUME ShellTypeOK, EvidenceInv, NEW fails, QuitRequested(fails)
  PROVE  EvidenceInv' /\ ReadyWhenReady
<1>a. RecorderOK(rec) /\ OrderOfMain /\ ClosedAfterReady /\ ObserverOK
  BY DEF EvidenceInv
<1>b. obs \in [made : BOOLEAN, runtime : BOOLEAN, ready : BOOLEAN, closing : BOOLEAN]
  BY DEF ShellTypeOK
<1>c. main = "quitting" /\ main' = "ended" /\ runtimeBridge' = runtimeBridge
  BY DEF QuitRequested
<1>d. ~obs.closing /\ obs.made = Diagnosed
  BY <1>a, <1>c DEF ObserverOK
<1>e. obs'.runtime = obs.runtime /\ obs'.ready = obs.ready
  BY <1>b DEF QuitRequested
<1>f. ObserverOK'
  BY <1>a, <1>c, <1>e DEF ObserverOK
<1>g. /\ Closing \in Started..FailedSafe /\ Closed \in Started..FailedSafe
      /\ Follows(Closed, Closing) /\ Follows(Closing, ApplicationReady)
      /\ ApplicationReady \notin {Closing, Closed, FailedSafe} /\ Closed # FailedSafe
      /\ ~(FailedSafe < Closed) /\ ~(Closed < Closed)
      /\ ApplicationReady # 0
  BY SMT DEF Follows, Started, FailedSafe, Closing, ApplicationReady, Closed
<1>1. CASE ~Diagnosed
  <2>1. rec' = rec /\ ~Live(rec')
    BY <1>1, <1>d DEF QuitRequested, Live
  <2> QED
    BY <1>a, <1>f, <2>1, Zenon
       DEF EvidenceInv, OrderOfMain, ClosedAfterReady, ReadyWhenReady, RecorderOK, NoGap,
           EndsWithOrder, InEvidence, Live
<1>2. CASE Diagnosed /\ obs.ready
  <2>1. rec' = RecordedTwo(rec, Closing, Closed, fails)
    BY <1>2, <1>d DEF QuitRequested
  <2>2. Live(rec) => rec.order = ApplicationReady
    BY <1>2, <1>a, <1>c DEF OrderOfMain
  <2>3. Extends(RecordedTwo(rec, Closing, Closed, fails), rec, Closed, {Closing, Closed})
    BY <1>a, <1>g, <2>2, RecordTwice
  <2>4. Extends(rec', rec, Closed, {Closing, Closed})
    BY <2>1, <2>3
  <2>5. Live(rec) => InEvidence(ApplicationReady, rec)
    <3> SUFFICES ASSUME Live(rec) PROVE InEvidence(ApplicationReady, rec)
      OBVIOUS
    <3>1. /\ rec.events \in Seq(Started..FailedSafe) /\ rec.events # <<>>
          /\ rec.events[Len(rec.events)] = ApplicationReady
      BY <1>a, <1>g, <2>2 DEF RecorderOK, Recorder, EndsWithOrder
    <3>2. Len(rec.events) \in DOMAIN rec.events
      BY <3>1, SMT DEF Started, FailedSafe
    <3> QED
      BY <3>1, <3>2 DEF InEvidence
  <2>6. RecorderOK(rec)' /\ ClosedAfterReady' /\ ReadyWhenReady
    BY <1>a, <1>g, <2>4, <2>5, Zenon DEF Extends, ClosedAfterReady, ReadyWhenReady
  <2>7. OrderOfMain'
    BY <1>g, <2>4 DEF OrderOfMain, Extends
  <2> QED
    BY <1>f, <2>6, <2>7 DEF EvidenceInv
<1>3. CASE Diagnosed /\ ~obs.ready
  <2>1. rec' = RecordedOne(rec, FailedSafe, fails)
    BY <1>3, <1>d DEF QuitRequested
  <2>2. Extends(rec', rec, FailedSafe, {FailedSafe})
    BY <1>a, <2>1, RecordFailure
  <2>3. RecorderOK(rec)' /\ ClosedAfterReady' /\ ReadyWhenReady
    BY <1>g, <2>2, EvidenceGrows
  <2>4. OrderOfMain'
    BY <1>g, <2>2 DEF OrderOfMain, Extends
  <2> QED
    BY <1>f, <2>3, <2>4 DEF EvidenceInv
<1> QED
  BY <1>1, <1>2, <1>3

\* Every step of the shell keeps the evidence sound.
LEMMA EvidenceStep ==
  ASSUME ShellTypeOK, EvidenceInv, ShellNext
  PROVE  EvidenceInv' /\ ReadyWhenReady
<1>1. CASE \E fails \in FailingWrites :
             \/ ReturnEarly(fails) \/ ParseArguments(fails) \/ BecomeOwner(fails) \/ MakePet(fails)
             \/ \E view \in IF TrayFails THEN {"held", "none", "raised"} ELSE {"held"} :
                  MakeTray(view, fails)
  BY <1>1, EvidenceOfMain
<1>2. CASE \E fails \in FailingWrites : RuntimeReady(fails) \/ QuitRequested(fails)
  BY <1>2, EvidenceOfReady, EvidenceOfQuit
<1>3. CASE (\E ok \in TrayCalls : Users(ok) \/ Settle(ok)) \/ CloseDashboard
  <2>1. /\ UNCHANGED <<rec, obs>>
        /\ main' = main \/ (main = "loop" /\ main' = "quitting")
    BY <1>3 DEF Users, Settle, CloseDashboard, Toggle, Pause, OpenDashboard, RefreshMenu, RequestExit,
        RequestExitNew, RuntimeShutdownSucceeds, RuntimeShutdownFails, ThreadEnds, FinishedSuccess,
        FinishedFailure, InLoop, ExitAsked
  <2>2. runtimeBridge'.state = "starting" => runtimeBridge.state = "starting"
    BY <1>3 DEF Users, Settle, CloseDashboard, Toggle, Pause, OpenDashboard, RefreshMenu, RequestExit,
        RequestExitNew, RuntimeShutdownSucceeds, RuntimeShutdownFails, ThreadEnds, BeginShutdown
  <2> QED
    BY <2>1, <2>2, EvidenceRests
<1> QED
  BY <1>1, <1>2, <1>3 DEF ShellNext

-----------------------------------------------------------------------------
(* The exit.                                                               *)

PetRecord == [life : {"none", "running", "paused", "closing"}, exitEmitted : BOOLEAN,
              visible : BOOLEAN, final : BOOLEAN, timer : BOOLEAN, renderer : BOOLEAN]

Menu == [visible : BOOLEAN, paused : BOOLEAN, closing : BOOLEAN]

TrayRecord == [view : {"none", "held", "pending"}, exitReq : BOOLEAN, shutStarted : BOOLEAN,
               shows : Menu, refreshOff : BOOLEAN, closed : BOOLEAN]

ShellRest == NothingCloses /\ QuitAfterCleanup /\ ExitIsAgreed /\ TrayShowsThePet

\* The menu's copy of the pet.
LEMMA ShownType ==
  ASSUME NEW p \in PetRecord
  PROVE  Shown(p) \in Menu
BY DEF PetRecord, Shown, Menu

\* A refresh changes what is shown, and nothing else the exit depends on.
LEMMA RefreshedKeeps ==
  ASSUME NEW t \in TrayRecord, NEW p \in PetRecord, NEW ok \in BOOLEAN
  PROVE  LET n == Refreshed(t, p, ok) IN
         /\ n \in TrayRecord
         /\ n.view = t.view /\ n.exitReq = t.exitReq /\ n.shutStarted = t.shutStarted /\ n.closed = t.closed
         /\ n.view = "held" /\ ~n.refreshOff /\ ~n.closed => n.shows = Shown(p)
<1> DEFINE n == Refreshed(t, p, ok)
<1>0. Shown(p) \in Menu
  BY ShownType
<1>1. CASE t.closed \/ t.refreshOff \/ t.view # "held"
  BY <1>1 DEF Refreshed
<1>2. CASE ~(t.closed \/ t.refreshOff \/ t.view # "held") /\ ok
  <2>1. n = [t EXCEPT !.shows = Shown(p)]
    BY <1>2 DEF Refreshed
  <2> QED
    BY <1>0, <2>1 DEF TrayRecord
<1>3. CASE ~(t.closed \/ t.refreshOff \/ t.view # "held") /\ ~ok
  <2>1. n = [t EXCEPT !.refreshOff = TRUE]
    BY <1>3 DEF Refreshed
  <2> QED
    BY <2>1 DEF TrayRecord
<1> QED
  BY <1>1, <1>2, <1>3

\* A recovered tray accepts an exit again and shows the pet or knows that it does not.
LEMMA RecoveredTray ==
  ASSUME NEW t \in TrayRecord, NEW p \in PetRecord, NEW ok \in BOOLEAN, ~t.closed, ~t.shutStarted
  PROVE  LET n == TrayRecovered(t, p, ok) IN
         /\ n \in TrayRecord /\ ~n.exitReq /\ ~n.closed /\ ~n.shutStarted
         /\ n.view = "held" /\ ~n.refreshOff => n.shows = Shown(p)
<1> DEFINE m == [t EXCEPT !.exitReq = FALSE, !.refreshOff = FALSE]
<1>1. m \in TrayRecord /\ ~m.exitReq /\ ~m.closed /\ ~m.shutStarted
  BY DEF TrayRecord
<1>2. TrayRecovered(t, p, ok) = Refreshed(m, p, ok)
  BY DEF TrayRecovered
<1> HIDE DEF m
<1> QED
  BY <1>1, <1>2, RefreshedKeeps

\* A completed tray is closed or keeps its view for another try.
LEMMA CompletedTray ==
  ASSUME NEW t \in TrayRecord, NEW ok \in BOOLEAN
  PROVE  LET n == TrayCompleted(t, ok) IN
         n \in TrayRecord /\ (n.closed \/ n.view = "pending")
<1> DEFINE n == TrayCompleted(t, ok)
<1>1. CASE t.closed
  BY <1>1 DEF TrayCompleted
<1>2. CASE ~t.closed /\ (t.view = "none" \/ ok)
  <2>1. n = [t EXCEPT !.shutStarted = TRUE, !.exitReq = TRUE, !.closed = TRUE, !.view = "none"]
    BY <1>2 DEF TrayCompleted
  <2> QED
    BY <2>1 DEF TrayRecord
<1>3. CASE ~t.closed /\ ~(t.view = "none" \/ ok)
  <2>1. n = [t EXCEPT !.shutStarted = TRUE, !.exitReq = TRUE, !.closed = FALSE, !.view = "pending"]
    BY <1>3 DEF TrayCompleted
  <2> QED
    BY <2>1 DEF TrayRecord
<1> QED
  BY <1>1, <1>2, <1>3

\* A recovered pet is not closing and its timer runs.
LEMMA RecoveredPet ==
  ASSUME NEW p \in PetRecord, ~p.final,
         p.life = "closing" <=> p.exitEmitted, p.life = "closing" <=> ~p.timer
  PROVE  LET n == PetRecovered(p) IN
         n \in PetRecord /\ ~n.final /\ n.life # "closing" /\ ~n.exitEmitted /\ n.timer
<1>1. CASE p.life # "closing"
  BY <1>1 DEF PetRecovered, PetRecord
<1>2. CASE p.life = "closing"
  BY <1>2 DEF PetRecovered, PetRecord
<1> QED
  BY <1>1, <1>2

\* A completed pet is final and released.
LEMMA CompletedPet ==
  ASSUME NEW p \in PetRecord
  PROVE  LET n == PetCompleted(p) IN n \in PetRecord /\ n.final /\ ~n.renderer /\ ~n.timer
BY DEF PetCompleted, PetRecord

BridgeRecord == [state : {"none", "new", "starting", "ready", "closing", "closed", "failed"}, shutting : BOOLEAN]

WindowRecord == [closing : BOOLEAN, safe : BOOLEAN, final : BOOLEAN]

ObserverRecord == [made : BOOLEAN, runtime : BOOLEAN, ready : BOOLEAN, closing : BOOLEAN]

\* The type of everything but the evidence.
ShellTypes ==
  /\ main \in {"arguments", "instance", "compose", "tray", "loop", "quitting", "ended"}
  /\ runtimeBridge \in BridgeRecord /\ win \in WindowRecord
  /\ pet \in PetRecord /\ tray \in TrayRecord /\ obs \in ObserverRecord
  /\ saves \in 0..1 /\ dash \in BOOLEAN /\ exits \in 0..MaxExits

\* The two parts of the type.
LEMMA ShellTypeParts == ShellTypeOK <=> ShellTypes /\ rec \in Recorder
BY Zenon DEF ShellTypeOK, ShellTypes, BridgeRecord, WindowRecord, ObserverRecord, PetRecord,
             TrayRecord, Menu, Recorder

ExitInv == ShellTypes /\ ShellRest

\* main's steps up to its event loop.
LEMMA ExitOfMain ==
  ASSUME ShellAssumption, ExitInv, NEW fails, NEW view \in {"held", "none", "raised"},
         \/ ReturnEarly(fails) \/ ParseArguments(fails) \/ BecomeOwner(fails)
         \/ MakePet(fails) \/ MakeTray(view, fails)
  PROVE  ExitInv'
<1> USE DEF ExitInv, ShellRest
<1>1. CASE ReturnEarly(fails) \/ ParseArguments(fails)
  <2>1. ShellTypes'
    BY <1>1 DEF ShellTypes, ReturnEarly, ParseArguments, Rest
  <2>2. ShellRest'
    BY <1>1 DEF ReturnEarly, ParseArguments, Rest, NothingCloses, QuitAfterCleanup, ExitIsAgreed, TrayShowsThePet
  <2> QED
    BY <2>1, <2>2
<1>2. CASE BecomeOwner(fails)
  <2>1. ShellTypes' /\ runtimeBridge'.shutting = runtimeBridge.shutting
    BY <1>2 DEF ShellTypes, BridgeRecord, BecomeOwner, Rest
  <2>2. ShellRest'
    BY <1>2, <2>1 DEF BecomeOwner, Rest, NothingCloses, QuitAfterCleanup, ExitIsAgreed, TrayShowsThePet
  <2> QED
    BY <2>1, <2>2
<1>3. CASE MakePet(fails)
  <2>1. /\ pet' \in PetRecord /\ pet'.life = "running" /\ pet'.timer /\ pet'.exitEmitted = pet.exitEmitted
        /\ pet'.final = pet.final
    BY <1>3 DEF ShellTypes, PetRecord, MakePet
  <2>2. ShellTypes'
    BY <1>3, <2>1 DEF ShellTypes, MakePet, Rest
  <2>3. ShellRest'
    BY <1>3, <2>1 DEF MakePet, Rest, NothingCloses, QuitAfterCleanup, ExitIsAgreed, TrayShowsThePet
  <2> QED
    BY <2>2, <2>3
<1>4. CASE MakeTray(view, fails)
  <2>1. Shown(pet) \in Menu
    BY ShownType DEF ShellTypes
  <2>2. /\ tray' \in TrayRecord /\ ~tray'.exitReq /\ ~tray'.shutStarted /\ ~tray'.closed
        /\ tray'.shows = Shown(pet)
    BY <1>4, <2>1 DEF TrayMade, TrayRecord, MakeTray
  <2>3. Diagnosed \in BOOLEAN
    BY DEF ShellAssumption
  <2>4. obs' \in ObserverRecord
    BY <1>4, <2>3 DEF ShellTypes, ObserverRecord, MakeTray
  <2>5. ShellTypes'
    BY <1>4, <2>2, <2>4 DEF ShellTypes, MakeTray
  <2>6. UNCHANGED <<pet, win, runtimeBridge, saves>> /\ main = "tray" /\ main' = "loop" /\ Shown(pet') = Shown(pet)
    BY <1>4 DEF MakeTray
  <2>7. ShellRest'
    BY <2>2, <2>6 DEF NothingCloses, QuitAfterCleanup, ExitIsAgreed, TrayShowsThePet
  <2> QED
    BY <2>5, <2>7
<1> QED
  BY <1>1, <1>2, <1>3, <1>4

\* In the event loop a step that leaves the exit alone, changes the pet but not whether it
\* closes, and refreshes the tray whenever it does.
LEMMA ExitRests ==
  ASSUME ExitInv, main = "loop", main' = main, UNCHANGED <<win, saves>>,
         runtimeBridge'.shutting = runtimeBridge.shutting,
         pet' \in PetRecord, pet'.exitEmitted = pet.exitEmitted, pet'.timer = pet.timer,
         pet'.final = pet.final, pet'.life = "closing" <=> pet.life = "closing",
         NEW ok \in BOOLEAN,
         tray' = Refreshed(tray, pet', ok) \/ (tray' = tray /\ pet' = pet)
  PROVE  ShellRest' /\ tray' \in TrayRecord
<1>0. tray \in TrayRecord /\ ~tray.closed /\ ShellRest
  BY DEF ExitInv, ShellTypes, ShellRest, NothingCloses
<1>1. /\ tray' \in TrayRecord /\ tray'.exitReq = tray.exitReq /\ tray'.shutStarted = tray.shutStarted
      /\ tray'.closed = tray.closed
      /\ tray'.view = "held" /\ ~tray'.refreshOff => tray'.shows = Shown(pet')
  <2>1. CASE tray' = Refreshed(tray, pet', ok)
    BY <1>0, <2>1, RefreshedKeeps
  <2>2. CASE tray' = tray /\ pet' = pet
    BY <1>0, <2>2 DEF ShellRest, TrayShowsThePet, Shown
  <2> QED
    BY <2>1, <2>2
<1> QED
  BY <1>0, <1>1 DEF ShellRest, NothingCloses, QuitAfterCleanup, ExitIsAgreed, TrayShowsThePet

\* The runtime gets ready, and commands that are no exit.
LEMMA ExitOfCommands ==
  ASSUME ExitInv, NEW ok \in BOOLEAN, NEW fromTray \in BOOLEAN, NEW fails,
         \/ RuntimeReady(fails) \/ Toggle(fromTray, ok) \/ Pause(fromTray, ok)
         \/ OpenDashboard(fromTray, ok) \/ RefreshMenu(ok)
  PROVE  ExitInv'
<1>0. /\ main = "loop" /\ main' = main /\ UNCHANGED <<win, saves, exits>>
      /\ dash' \in BOOLEAN
  BY DEF ExitInv, ShellTypes, RuntimeReady, Toggle, Pause, OpenDashboard, RefreshMenu, InLoop
<1>1. runtimeBridge' \in BridgeRecord /\ runtimeBridge'.shutting = runtimeBridge.shutting
  BY DEF ExitInv, ShellTypes, BridgeRecord, RuntimeReady, Toggle, Pause, OpenDashboard, RefreshMenu
<1>2. obs' \in ObserverRecord
  <2>1. \A inWorkspace \in BOOLEAN : UiReady(inWorkspace) \in BOOLEAN
    BY DEF UiReady, ExitInv, ShellTypes, PetRecord
  <2> QED
    BY <2>1 DEF ExitInv, ShellTypes, ObserverRecord, RuntimeReady, Toggle, Pause, OpenDashboard, RefreshMenu
<1>3. /\ pet' \in PetRecord /\ pet'.exitEmitted = pet.exitEmitted /\ pet'.timer = pet.timer
      /\ pet'.final = pet.final /\ (pet'.life = "closing" <=> pet.life = "closing")
  <2>1. CASE Toggle(fromTray, ok)
    BY <2>1 DEF ExitInv, ShellTypes, PetRecord, Toggle
  <2>2. CASE Pause(fromTray, ok)
    BY <2>2 DEF ExitInv, ShellTypes, PetRecord, Pause
  <2>3. CASE pet' = pet
    BY <2>3 DEF ExitInv, ShellTypes
  <2> QED
    BY <2>1, <2>2, <2>3 DEF RuntimeReady, OpenDashboard, RefreshMenu
<1>4. tray' = Refreshed(tray, pet', ok) \/ (tray' = tray /\ pet' = pet)
  BY DEF RuntimeReady, Toggle, Pause, OpenDashboard, RefreshMenu
<1>5. ShellRest' /\ tray' \in TrayRecord
  BY <1>0, <1>1, <1>3, <1>4, ExitRests
<1> QED
  BY <1>0, <1>1, <1>2, <1>3, <1>5 DEF ExitInv, ShellTypes

\* What an exit request does to the pet and the tray.
LEMMA AskedParts ==
  ASSUME ExitInv, main = "loop", NEW ok \in BOOLEAN, NEW fromTray \in BOOLEAN
  PROVE  LET t == TrayAsked(fromTray, ok) IN
         /\ PetClosing \in PetRecord /\ PetClosing.life = "closing" /\ PetClosing.exitEmitted
         /\ ~PetClosing.timer /\ PetClosing.final = pet.final
         /\ t \in TrayRecord /\ ~t.closed /\ ~t.shutStarted
         /\ t.view = "held" /\ ~t.refreshOff => t.shows = Shown(PetClosing)
<1> DEFINE m == [tray EXCEPT !.exitReq = @ \/ fromTray]
<1>0. /\ pet \in PetRecord /\ tray \in TrayRecord /\ ~tray.closed /\ ~tray.shutStarted
  BY DEF ExitInv, ShellTypes, ShellRest, NothingCloses
<1>1. /\ PetClosing \in PetRecord /\ PetClosing.life = "closing" /\ PetClosing.exitEmitted
      /\ ~PetClosing.timer /\ PetClosing.final = pet.final
  BY <1>0 DEF PetClosing, PetRecord
<1>2. m \in TrayRecord /\ ~m.closed /\ ~m.shutStarted
  BY <1>0 DEF TrayRecord
<1>3. TrayAsked(fromTray, ok) = Refreshed(m, PetClosing, ok)
  BY DEF TrayAsked
<1> HIDE DEF m
<1> QED
  BY <1>1, <1>2, <1>3, RefreshedKeeps

\* With a main window the worker answers later.
LEMMA ExitOfRequest ==
  ASSUME ShellAssumption, ExitInv, NEW ok \in BOOLEAN, NEW fromTray \in BOOLEAN, RequestExit(fromTray, ok)
  PROVE  ExitInv'
<1>0. /\ main = "loop" /\ main' = main /\ UNCHANGED <<obs, saves, dash>> /\ exits' \in 0..MaxExits
      /\ pet' = PetClosing /\ tray' = TrayAsked(fromTray, ok)
  <2>1. exits \in 0..MaxExits /\ MaxExits \in Nat /\ exits < MaxExits /\ exits' = exits + 1
    BY DEF ExitInv, ShellTypes, ShellAssumption, RequestExit, ExitAsked
  <2>2. exits' \in 0..MaxExits
    BY <2>1, SMT
  <2> QED
    BY <2>2 DEF RequestExit, ExitAsked, InLoop
<1>1. /\ pet' \in PetRecord /\ pet'.life = "closing" /\ pet'.exitEmitted /\ ~pet'.timer /\ pet'.final = pet.final
      /\ tray' \in TrayRecord /\ ~tray'.closed /\ ~tray'.shutStarted
      /\ tray'.view = "held" /\ ~tray'.refreshOff => tray'.shows = Shown(pet')
  BY <1>0, AskedParts, Zenon
<1>2. /\ win' \in WindowRecord /\ runtimeBridge' \in BridgeRecord
      /\ win'.closing => runtimeBridge'.shutting
  <2>1. win.closing => runtimeBridge.shutting
    BY <1>0 DEF ExitInv, ShellRest, ExitIsAgreed
  <2>2. win \in WindowRecord /\ runtimeBridge \in BridgeRecord
    BY DEF ExitInv, ShellTypes
  <2>3. \/ /\ win' = [win EXCEPT !.safe = TRUE, !.closing = TRUE]
           /\ runtimeBridge' = [state |-> "closing", shutting |-> TRUE]
        \/ win' = [win EXCEPT !.safe = TRUE] /\ runtimeBridge' = runtimeBridge
    BY Zenon DEF RequestExit, BeginShutdown
  <2>4. CASE /\ win' = [win EXCEPT !.safe = TRUE, !.closing = TRUE]
             /\ runtimeBridge' = [state |-> "closing", shutting |-> TRUE]
    BY <2>2, <2>4 DEF WindowRecord, BridgeRecord
  <2>5. CASE win' = [win EXCEPT !.safe = TRUE] /\ runtimeBridge' = runtimeBridge
    <3>1. win' \in WindowRecord /\ win'.closing = win.closing
      BY <2>2, <2>5 DEF WindowRecord
    <3> QED
      BY <2>1, <2>2, <2>5, <3>1
  <2> QED
    BY <2>3, <2>4, <2>5
<1>3. ShellTypes'
  BY <1>0, <1>1, <1>2 DEF ExitInv, ShellTypes
<1>4. ShellRest'
  BY <1>0, <1>1, <1>2 DEF ExitInv, ShellRest, NothingCloses, QuitAfterCleanup, ExitIsAgreed, TrayShowsThePet
<1> QED
  BY <1>3, <1>4 DEF ExitInv

\* The end of a successful shutdown.
LEMMA ExitOfSuccess ==
  ASSUME ExitInv, main = "loop", NEW t \in TrayRecord, NEW p \in PetRecord, NEW ok \in BOOLEAN,
         runtimeBridge' = [state |-> "closed", shutting |-> FALSE], FinishedSuccess(t, p, ok),
         UNCHANGED <<obs, dash>>, exits' \in 0..MaxExits
  PROVE  ExitInv'
<1>0. saves = 0 /\ win \in WindowRecord /\ obs \in ObserverRecord /\ dash \in BOOLEAN
  BY DEF ExitInv, ShellTypes, ShellRest, NothingCloses
<1>1. /\ tray' = TrayCompleted(t, ok) /\ pet' = PetCompleted(p) /\ main' = "quitting" /\ saves' = 1
      /\ WindowTold(TRUE)
  <2>1. saves' = 1
    BY <1>0 DEF FinishedSuccess, SavePetSettings
  <2> QED
    BY <2>1, Zenon DEF FinishedSuccess
<1>2. tray' \in TrayRecord /\ (tray'.closed \/ tray'.view = "pending")
  BY <1>1, CompletedTray
<1>3. pet' \in PetRecord /\ pet'.final /\ ~pet'.renderer /\ ~pet'.timer
  BY <1>1, CompletedPet
<1>4. win' \in WindowRecord
  BY <1>0, <1>1 DEF WindowTold, WindowRecord
<1>5. runtimeBridge' \in BridgeRecord /\ runtimeBridge'.state = "closed"
  BY DEF BridgeRecord
<1>6. ShellTypes'
  BY <1>0, <1>1, <1>2, <1>3, <1>4, <1>5 DEF ShellTypes
<1>7. ShellRest'
  BY <1>1, <1>2, <1>3, <1>5 DEF ShellRest, NothingCloses, QuitAfterCleanup, ExitIsAgreed, TrayShowsThePet
<1> QED
  BY <1>6, <1>7 DEF ExitInv

\* The end of a failed one: the pet and the tray recover, whoever asked.
LEMMA ExitOfFailure ==
  ASSUME ExitInv, main = "loop", NEW ok \in BOOLEAN,
         runtimeBridge' \in BridgeRecord, FinishedFailure(ok), UNCHANGED <<obs, dash, exits>>
  PROVE  ExitInv'
<1>0. /\ pet \in PetRecord /\ tray \in TrayRecord /\ win \in WindowRecord
      /\ ~tray.closed /\ ~tray.shutStarted /\ ~pet.final
      /\ pet.life = "closing" <=> pet.exitEmitted
      /\ pet.life = "closing" <=> ~pet.timer
  BY DEF ExitInv, ShellTypes, ShellRest, NothingCloses, ExitIsAgreed
<1>1. /\ pet' = PetRecovered(pet) /\ UNCHANGED <<main, saves>> /\ WindowTold(FALSE)
      /\ tray' = TrayRecovered(Refreshed(tray, pet', ok), pet', ok)
  BY DEF FinishedFailure
<1>2. pet' \in PetRecord /\ ~pet'.final /\ pet'.life # "closing" /\ ~pet'.exitEmitted /\ pet'.timer
  BY <1>0, <1>1, RecoveredPet
<1>3. /\ Refreshed(tray, pet', ok) \in TrayRecord
      /\ ~Refreshed(tray, pet', ok).closed /\ ~Refreshed(tray, pet', ok).shutStarted
  BY <1>0, <1>2, RefreshedKeeps
<1>4. /\ tray' \in TrayRecord /\ ~tray'.exitReq /\ ~tray'.closed /\ ~tray'.shutStarted
      /\ tray'.view = "held" /\ ~tray'.refreshOff => tray'.shows = Shown(pet')
  BY <1>1, <1>2, <1>3, RecoveredTray, Zenon
<1>5. win' \in WindowRecord /\ ~win'.closing
  BY <1>0, <1>1 DEF WindowTold, WindowRecord
<1>6. ShellTypes'
  BY <1>1, <1>2, <1>4, <1>5 DEF ExitInv, ShellTypes
<1>7. ShellRest'
  BY <1>1, <1>2, <1>4, <1>5 DEF ExitInv, ShellRest, NothingCloses, QuitAfterCleanup, ExitIsAgreed, TrayShowsThePet
<1> QED
  BY <1>6, <1>7 DEF ExitInv

\* Every step of the shell keeps its parts in agreement.
LEMMA ExitInvStep ==
  ASSUME ShellAssumption, ExitInv, ShellNext
  PROVE  ExitInv'
<1>1. CASE \E fails \in FailingWrites :
             \/ ReturnEarly(fails) \/ ParseArguments(fails) \/ BecomeOwner(fails) \/ MakePet(fails)
             \/ \E view \in IF TrayFails THEN {"held", "none", "raised"} ELSE {"held"} :
                  MakeTray(view, fails)
  BY <1>1, ExitOfMain
<1>2. CASE \E fails \in FailingWrites : RuntimeReady(fails)
  BY <1>2, ExitOfCommands
<1>3. CASE \E fails \in FailingWrites : QuitRequested(fails)
  <2>1. PICK fails \in FailingWrites : QuitRequested(fails)
    BY <1>3
  <2>2. ShellTypes'
    BY <2>1 DEF QuitRequested, ExitInv, ShellTypes, ObserverRecord
  <2>3. ShellRest'
    BY <2>1 DEF QuitRequested, ShellRest, NothingCloses, QuitAfterCleanup, ExitIsAgreed, TrayShowsThePet
  <2> QED
    BY <2>2, <2>3 DEF ExitInv
<1>4. CASE \E ok \in TrayCalls : Users(ok) \/ Settle(ok)
  <2>1. PICK ok \in TrayCalls : Users(ok) \/ Settle(ok)
    BY <1>4
  <2>2. ok \in BOOLEAN
    BY DEF TrayCalls
  <2>3. CASE \E fromTray \in BOOLEAN :
               Toggle(fromTray, ok) \/ Pause(fromTray, ok) \/ OpenDashboard(fromTray, ok)
    BY <2>2, <2>3, ExitOfCommands
  <2>4. CASE RefreshMenu(ok)
    BY <2>2, <2>4, TRUE \in BOOLEAN, ExitOfCommands
  <2>5. CASE \E fromTray \in BOOLEAN : RequestExit(fromTray, ok)
    BY <2>2, <2>5, ExitOfRequest
  <2>6. CASE \E fromTray \in BOOLEAN : RequestExitNew(fromTray, ok)
    <3>1. PICK fromTray \in BOOLEAN : RequestExitNew(fromTray, ok)
      BY <2>6
    <3>2. /\ main = "loop" /\ runtimeBridge' = [state |-> "closed", shutting |-> FALSE]
          /\ FinishedSuccess(TrayAsked(fromTray, ok), PetClosing, ok) /\ UNCHANGED <<obs, dash>>
      BY <3>1 DEF RequestExitNew, ExitAsked, InLoop
    <3>3. exits' \in 0..MaxExits
      <4>1. exits \in 0..MaxExits /\ MaxExits \in Nat /\ exits < MaxExits /\ exits' = exits + 1
        BY <3>1 DEF ExitInv, ShellTypes, ShellAssumption, RequestExitNew, ExitAsked
      <4> QED
        BY <4>1, SMT
    <3>4. TrayAsked(fromTray, ok) \in TrayRecord /\ PetClosing \in PetRecord
      BY <2>2, <3>2, AskedParts
    <3> QED
      BY <2>2, <3>2, <3>3, <3>4, ExitOfSuccess
  <2>7. CASE RuntimeShutdownSucceeds(ok)
    <3>1. /\ main = "loop" /\ runtimeBridge' = [state |-> "closed", shutting |-> FALSE]
          /\ FinishedSuccess(tray, pet, ok) /\ UNCHANGED <<obs, dash, exits>>
      BY <2>7 DEF RuntimeShutdownSucceeds, InLoop
    <3>2. tray \in TrayRecord /\ pet \in PetRecord /\ exits \in 0..MaxExits
      BY DEF ExitInv, ShellTypes
    <3> QED
      BY <2>2, <3>1, <3>2, ExitOfSuccess
  <2>8. CASE RuntimeShutdownFails(ok) \/ ThreadEnds(ok)
    <3>1. /\ main = "loop" /\ runtimeBridge' \in BridgeRecord
          /\ FinishedFailure(ok) /\ UNCHANGED <<obs, dash, exits>>
      <4>1. /\ main = "loop" /\ FinishedFailure(ok) /\ UNCHANGED <<obs, dash, exits>>
            /\ \/ runtimeBridge' = [state |-> "closing", shutting |-> FALSE]
               \/ runtimeBridge' = [state |-> "failed", shutting |-> FALSE]
        BY <2>8, Zenon DEF RuntimeShutdownFails, ThreadEnds, InLoop
      <4>2. runtimeBridge' \in BridgeRecord
        <5>1. /\ [state |-> "closing", shutting |-> FALSE] \in BridgeRecord
              /\ [state |-> "failed", shutting |-> FALSE] \in BridgeRecord
          BY DEF BridgeRecord
        <5> QED
          BY <4>1, <5>1, Zenon
      <4> QED
        BY <4>1, <4>2
    <3> QED
      BY <2>2, <3>1, ExitOfFailure
  <2> QED
    BY <2>1, <2>3, <2>4, <2>5, <2>6, <2>7, <2>8 DEF Users, Settle
<1>5. CASE CloseDashboard
  <2>1. ShellTypes'
    BY <1>5 DEF CloseDashboard, ExitInv, ShellTypes
  <2>2. ShellRest'
    BY <1>5 DEF CloseDashboard, ExitInv, ShellRest, NothingCloses, QuitAfterCleanup, ExitIsAgreed,
        TrayShowsThePet, Shown
  <2> QED
    BY <2>1, <2>2 DEF ExitInv
<1> QED
  BY <1>1, <1>2, <1>3, <1>4, <1>5 DEF ShellNext

-----------------------------------------------------------------------------
(* The theorems about the shell.                                           *)

ShellInvariant == EvidenceInv /\ ExitInv

\* The shell starts in it.
LEMMA ShellInvInit == ASSUME ShellAssumption, ShellInit PROVE ShellInvariant
<1> USE DEF ShellInit
<1>1. /\ pet \in PetRecord /\ tray \in TrayRecord /\ win \in WindowRecord
      /\ runtimeBridge \in BridgeRecord /\ obs \in ObserverRecord
  BY DEF PetRecord, TrayRecord, Menu, NoTray, WindowRecord, BridgeRecord, ObserverRecord
<1>2. saves \in 0..1 /\ exits \in 0..MaxExits /\ dash \in BOOLEAN
  <2>1. MaxExits \in Nat /\ saves = 0 /\ exits = 0
    BY DEF ShellAssumption
  <2>2. saves \in 0..1 /\ exits \in 0..MaxExits
    BY <2>1, SMT
  <2> QED
    BY <2>2
<1>3. ShellTypes
  BY <1>1, <1>2 DEF ShellTypes
<1>4. ShellRest
  BY DEF ShellRest, NothingCloses, QuitAfterCleanup, ExitIsAgreed, TrayShowsThePet, NoTray
<1>5. rec \in Recorder /\ rec.events = <<>> /\ rec.order = 0
  BY DEF Recorder, Started, FailedSafe, Closed
<1>6. RecorderOK(rec) /\ ClosedAfterReady
  BY <1>5 DEF RecorderOK, NoGap, EndsWithOrder, ClosedAfterReady, InEvidence
<1>7. OrderOfMain /\ ObserverOK
  BY <1>5 DEF OrderOfMain, ObserverOK
<1> QED
  BY <1>3, <1>4, <1>6, <1>7 DEF ShellInvariant, EvidenceInv, ExitInv

\* Its steps keep it, and are safe.
LEMMA ShellInvStep ==
  ASSUME ShellAssumption, ShellInvariant, [ShellNext]_applicationVars
  PROVE  ShellInvariant' /\ [NoWindowOpensOnExit /\ ReadyIsTruthful]_applicationVars
<1>0. ShellTypeOK
  BY ShellTypeParts DEF ShellInvariant, EvidenceInv, ExitInv, RecorderOK
<1>1. CASE ShellNext
  <2>1. EvidenceInv' /\ ReadyWhenReady /\ ExitInv'
    BY <1>0, <1>1, EvidenceStep, ExitInvStep DEF ShellInvariant
  <2>2. ReadyIsTruthful
    BY <2>1, Zenon DEF ReadyIsTruthful, ReadyWhenReady, EvidenceInv, ClosedAfterReady
  <2>3. NoWindowOpensOnExit
    <3> SUFFICES ASSUME dash', ~dash, pet.life = "closing" PROVE tray.refreshOff
      BY DEF NoWindowOpensOnExit
    <3>1. \E ok \in TrayCalls, fromTray \in BOOLEAN : OpenDashboard(fromTray, ok)
      BY <1>1 DEF ShellNext, Users, Settle, ReturnEarly, ParseArguments, BecomeOwner, MakePet, MakeTray,
          RuntimeReady, QuitRequested, Toggle, Pause, RefreshMenu, RequestExit, RequestExitNew,
          RuntimeShutdownSucceeds, RuntimeShutdownFails, ThreadEnds, CloseDashboard, Rest
    <3>2. main = "loop" /\ tray.view = "held" /\ ~tray.shows.closing
      BY <3>1 DEF OpenDashboard, InLoop, TrayOffers
    <3>3. Shown(pet).closing
      BY DEF Shown
    <3> QED
      BY <3>2, <3>3 DEF ShellInvariant, ExitInv, ShellRest, TrayShowsThePet
  <2> QED
    BY <2>1, <2>2, <2>3 DEF ShellInvariant
<1>2. CASE UNCHANGED applicationVars
  <2>1. UNCHANGED <<main, runtimeBridge, win, pet, tray, rec, obs, saves, dash, exits>>
    BY <1>2 DEF applicationVars
  <2>2. EvidenceInv'
    BY <1>0, <2>1, EvidenceRests DEF ShellInvariant
  <2>3. ShellTypes'
    BY <2>1 DEF ShellInvariant, ExitInv, ShellTypes
  <2>4. ShellRest'
    BY <2>1 DEF ShellInvariant, ExitInv, ShellRest, NothingCloses, QuitAfterCleanup, ExitIsAgreed,
        TrayShowsThePet, Shown
  <2> QED
    BY <1>2, <2>2, <2>3, <2>4 DEF ShellInvariant, ExitInv
<1> QED
  BY <1>1, <1>2

\* The invariant gives the property.
LEMMA ShellInvGives == ShellInvariant => ExitIsOrderly
<1>1. ASSUME ShellInvariant PROVE ShellTypeOK
  BY <1>1, ShellTypeParts DEF ShellInvariant, EvidenceInv, ExitInv, RecorderOK
<1>2. ASSUME NoGap(rec) PROVE TimelineHasNoGap
  BY <1>2, Zenon DEF NoGap, TimelineHasNoGap
<1> QED
  BY <1>1, <1>2 DEF ShellInvariant, EvidenceInv, ExitInv, ShellRest, RecorderOK, ExitIsOrderly

\* With or without a main window, whatever the tray view raises and whichever
\* write of the checkpoint fails: pet, tray, window and bridge agree on an
\* exit, the process quits only after the clean-up, the tray shows the pet, and
\* the checkpoint has no gap.
THEOREM ExitOrderly == ASSUME ShellAssumption PROVE ShellSpec => []ExitIsOrderly
<1>1. ShellInit => ShellInvariant
  BY ShellInvInit
<1>2. ShellInvariant /\ [ShellNext]_applicationVars => ShellInvariant'
  BY ShellInvStep
<1> QED
  BY <1>1, <1>2, ShellInvGives, PTL DEF ShellSpec

\* No window opens on the way out unless the tray's menu is stale, and ready is
\* recorded only in a state that is ready.
THEOREM ShellStepsSafe ==
  ASSUME ShellAssumption
  PROVE  ShellSpec => [][NoWindowOpensOnExit /\ ReadyIsTruthful]_applicationVars
<1>1. ShellInit => ShellInvariant
  BY ShellInvInit
<1>2. ShellInvariant /\ [ShellNext]_applicationVars => ShellInvariant'
  BY ShellInvStep
<1>3. ShellInvariant /\ [ShellNext]_applicationVars => [NoWindowOpensOnExit /\ ReadyIsTruthful]_applicationVars
  BY ShellInvStep
<1> QED
  BY <1>1, <1>2, <1>3, PTL DEF ShellSpec

=============================================================================
