--------------------------- MODULE PackagingProofs ---------------------------
(***************************************************************************)
(* Proofs about the tools of packaging/.                                   *)
(*                                                                         *)
(* The archivers: no content is lost or doubled whatever fails, dies or    *)
(* writes meanwhile, a run that reports completion archived exactly its    *)
(* snapshot, and what a failed run reports and restores is true.  The      *)
(* argument is a census.  Every content that lies anywhere is live, and a  *)
(* live content has one place, so a rename that moves one content, into a  *)
(* place that holds nothing of its name, keeps the census.  That the place *)
(* holds nothing is what the rest of the invariant says: a run stages each *)
(* source once, and only an archive published here, whose target no later  *)
(* run accepts, holds anything.                                            *)
(*                                                                         *)
(* The controlled runs: the foreign program runs at most once, inside a    *)
(* job a live harness holds, and a success is sound.  The first marker is  *)
(* created exclusively and never removed, so one start of one harness gets *)
(* past it; whatever executes was resumed by that start.  Hence nothing    *)
(* else can change what it judged, and a tree it found empty stays empty.  *)
(*                                                                         *)
(* The acquisition of tools: only reviewed bytes are extracted and cached, *)
(* and the audits describe the archive that lies there.  Whatever lies in  *)
(* quarantine stays unless somebody exchanges it, so one command of one    *)
(* operator publishes and audits it, and an extraction that found the      *)
(* reviewed archive still stands over it.                                  *)
(***************************************************************************)
EXTENDS TransactionalArchive, ControlledRun, ToolAcquisition, FiniteSetTheorems, TLAPS

\* Every content that lies somewhere is the live content of its name, and only
\* an archive published here holds anything.
ContentsAreLive ==
    \A s \in Names :
        /\ 0 \notin live[s] /\ old[s] \subseteq live[s]
        /\ source[s] \in live[s] \cup {0} /\ partial[s] \in live[s] \cup {0}
        /\ \A p \in AllPrograms : archive[p][s] \in live[s] \cup {0}

TargetsHold == \A p \in AllPrograms : target[p] # "ours" => archive[p] = None

\* Where a run stands: what it has staged are the sources it moved, and it has
\* nothing to roll back and nothing to report before its end.
StageShape ==
    /\ moved \in 0..Len(Order(prog))
    /\ pc = "idle" => moved = 0
    /\ pc \in {"idle", "verify"} => partial = None
    /\ pc # "rollback" => back = 0
    /\ pc # "idle" => ~report.completed
    /\ pc = "verify" => target[prog] = "ours"
    /\ pc = "move" => \A s \in Names : partial[s] # 0 => \E j \in 1..moved : Order(prog)[j] = s

\* The inductive invariant.
ArchiveInv == ArchiveSafety /\ ContentsAreLive /\ TargetsHold /\ StageShape

\* The variables that say where contents lie.
contents == <<source, partial, archive, old, live>>

\* No archiver moves a source twice.
LEMMA OrderFacts ==
    ASSUME NEW p \in AllPrograms
    PROVE  /\ Order(p) \in Seq(Names) /\ Len(Order(p)) \in 2..3
           /\ \A i \in 1..Len(Order(p)) : Order(p)[i] \in Names
           /\ \A i, j \in 1..Len(Order(p)) : Order(p)[i] = Order(p)[j] => i = j
<1>1. CASE p \in {"rebuild", "unpruned"}
  <2>1. Order(p) = <<"build", "deployment", "dist">>
    BY <1>1 DEF Order
  <2> QED
    BY <2>1 DEF Names
<1>2. CASE p = "degraded"
  <2>1. Order(p) = <<"dist", "build">>
    BY <1>2 DEF Order
  <2> QED
    BY <2>1 DEF Names
<1>3. CASE p = "attempt"
  <2>1. Order(p) = <<"build", "deployment">>
    BY <1>3 DEF Order
  <2> QED
    BY <2>1 DEF Names
<1> QED
  BY <1>1, <1>2, <1>3 DEF AllPrograms

\* A step loses and doubles nothing if it leaves each live content at the places where it
\* was, or at one place.
LEMMA RelocationKeeps ==
    ASSUME NothingLost, live' = live,
           \A s \in Names : \A v \in live[s] :
               \/ \A x \in Places : At(s, x, v)' <=> At(s, x, v)
               \/ \E y \in Places : \A x \in Places : At(s, x, v)' <=> x = y
    PROVE  NothingLost'
<1> SUFFICES ASSUME NEW s \in Names, NEW v \in live[s]
             PROVE  \E x \in Places : At(s, x, v)' /\ \A y \in Places : At(s, y, v)' => y = x
  BY DEF NothingLost, Places, AllPrograms
<1>1. CASE \A x \in Places : At(s, x, v)' <=> At(s, x, v)
  <2>1. PICK x \in Places : At(s, x, v) /\ \A y \in Places : At(s, y, v) => y = x
    BY DEF NothingLost
  <2> QED
    BY <1>1, <2>1
<1>2. CASE \E y \in Places : \A x \in Places : At(s, x, v)' <=> x = y
  BY <1>2
<1> QED
  BY <1>1, <1>2

\* A step that touches no content.
LEMMA ContentsStay ==
    ASSUME NothingLost, ContentsAreLive, UNCHANGED contents
    PROVE  NothingLost' /\ ContentsAreLive'
<1>1. \A s \in Names : \A v \in live[s] : \A x \in Places : At(s, x, v)' <=> At(s, x, v)
  BY DEF At, contents
<1>2. NothingLost'
  BY <1>1, RelocationKeeps DEF contents
<1>3. ContentsAreLive'
  BY DEF ContentsAreLive, contents, AllPrograms, Names
<1> QED
  BY <1>2, <1>3

\* A live content lies at one place.
LEMMA PlaceIsUnique ==
    ASSUME NothingLost, NEW s \in Names, NEW v \in live[s],
           NEW x \in Places, NEW y \in Places, At(s, x, v), At(s, y, v)
    PROVE  x = y
BY DEF NothingLost

\* The places of a content, spelled out.
LEMMA WhereItLies ==
    ASSUME NothingLost, NEW s \in Names, NEW v \in live[s]
    PROVE  /\ source[s] = v => partial[s] # v /\ v \notin old[s] /\ \A p \in AllPrograms : archive[p][s] # v
           /\ partial[s] = v => source[s] # v /\ v \notin old[s] /\ \A p \in AllPrograms : archive[p][s] # v
           /\ \A p \in AllPrograms :
                archive[p][s] = v => source[s] # v /\ partial[s] # v /\ v \notin old[s]
                                     /\ \A q \in AllPrograms : archive[q][s] = v => q = p
<1>1. "source" \in Places /\ "staging" \in Places /\ "left" \in Places /\ AllPrograms \subseteq Places
  BY DEF Places
<1>2. /\ At(s, "source", v) <=> source[s] = v
      /\ At(s, "staging", v) <=> partial[s] = v
      /\ At(s, "left", v) <=> v \in old[s]
      /\ \A p \in AllPrograms : At(s, p, v) <=> archive[p][s] = v
  BY DEF At, AllPrograms
<1>3. \A p \in AllPrograms : p # "source" /\ p # "staging" /\ p # "left"
  BY DEF AllPrograms
<1>4. \A x, y \in Places : At(s, x, v) /\ At(s, y, v) => x = y
  BY PlaceIsUnique
<1>5. source[s] = v => partial[s] # v /\ v \notin old[s] /\ \A p \in AllPrograms : archive[p][s] # v
  BY <1>1, <1>2, <1>3, <1>4
<1>6. partial[s] = v => source[s] # v /\ v \notin old[s] /\ \A p \in AllPrograms : archive[p][s] # v
  BY <1>1, <1>2, <1>3, <1>4
<1>7. ASSUME NEW p \in AllPrograms, archive[p][s] = v
      PROVE  source[s] # v /\ partial[s] # v /\ v \notin old[s] /\ \A q \in AllPrograms : archive[q][s] = v => q = p
  BY <1>1, <1>2, <1>3, <1>4, <1>7
<1> QED
  BY <1>5, <1>6, <1>7

\* The rename of one source into the staging directory.
LEMMA MovesOne ==
    ASSUME TypeOK, NothingLost, ContentsAreLive, NEW s0 \in Names, source[s0] # 0, partial[s0] = 0,
           source' = [source EXCEPT ![s0] = 0], partial' = [partial EXCEPT ![s0] = source[s0]],
           UNCHANGED <<archive, old, live>>
    PROVE  NothingLost' /\ ContentsAreLive'
<1>1. source' \in [Names -> Versions] /\ partial' \in [Names -> Versions]
  BY DEF TypeOK, Versions
<1>2. \A s \in Names : /\ source'[s] = IF s = s0 THEN 0 ELSE source[s]
                       /\ partial'[s] = IF s = s0 THEN source[s0] ELSE partial[s]
  BY DEF TypeOK
<1>3. ASSUME NEW s \in Names, NEW v \in live[s]
      PROVE  \/ \A x \in Places : At(s, x, v)' <=> At(s, x, v)
             \/ \E y \in Places : \A x \in Places : At(s, x, v)' <=> x = y
  <2>1. v # 0
    BY DEF ContentsAreLive
  <2>2. CASE s = s0 /\ v = source[s0]
    <3>1. \A x \in Places : At(s, x, v)' <=> x = "staging"
      BY <1>2, <2>1, <2>2, WhereItLies DEF At, Places, AllPrograms
    <3> QED
      BY <3>1 DEF Places
  <2>3. CASE ~(s = s0 /\ v = source[s0])
    BY <1>2, <2>1, <2>3 DEF At
  <2> QED
    BY <2>2, <2>3
<1>4. NothingLost'
  BY <1>3, RelocationKeeps
<1>5. ContentsAreLive'
  BY <1>2 DEF ContentsAreLive
<1> QED
  BY <1>4, <1>5

\* The rename of one source back from the staging directory, or from an archive.
LEMMA PutsBackOne ==
    ASSUME TypeOK, NothingLost, ContentsAreLive, prog \in AllPrograms, NEW s0 \in Names,
           Archived(s0) # 0, source[s0] = 0, PutBack(s0), UNCHANGED <<old, live>>
    PROVE  NothingLost' /\ ContentsAreLive'
<1> DEFINE v0 == Archived(s0)
<1>1. \A s \in Names : source'[s] = IF s = s0 THEN v0 ELSE source[s]
  BY DEF TypeOK, PutBack
<1>2. CASE root = "part"
  <2>1. v0 = partial[s0] /\ archive' = archive
    BY <1>2 DEF Archived, PutBack
  <2>2. \A s \in Names : partial'[s] = IF s = s0 THEN 0 ELSE partial[s]
    BY <1>2 DEF TypeOK, PutBack
  <2>3. ASSUME NEW s \in Names, NEW v \in live[s]
        PROVE  \/ \A x \in Places : At(s, x, v)' <=> At(s, x, v)
               \/ \E y \in Places : \A x \in Places : At(s, x, v)' <=> x = y
    <3>1. v # 0
      BY DEF ContentsAreLive
    <3>2. CASE s = s0 /\ v = v0
      <4>1. \A x \in Places : At(s, x, v)' <=> x = "source"
        BY <1>1, <2>1, <2>2, <3>1, <3>2, WhereItLies DEF At, Places, AllPrograms
      <4> QED
        BY <4>1 DEF Places
    <3>3. CASE ~(s = s0 /\ v = v0)
      BY <1>1, <2>1, <2>2, <3>1, <3>3 DEF At
    <3> QED
      BY <3>2, <3>3
  <2>4. NothingLost'
    BY <2>3, RelocationKeeps
  <2>5. ContentsAreLive'
    BY <1>1, <2>1, <2>2 DEF ContentsAreLive
  <2> QED
    BY <2>4, <2>5
<1>3. CASE root = "archive" /\ target[prog] = "ours"
  <2>1. v0 = archive[prog][s0] /\ partial' = partial
    BY <1>3 DEF Archived, PutBack
  <2>2. \A p \in AllPrograms : \A s \in Names :
           archive'[p][s] = IF p = prog /\ s = s0 THEN 0 ELSE archive[p][s]
    BY <1>3 DEF TypeOK, PutBack
  <2>3. ASSUME NEW s \in Names, NEW v \in live[s]
        PROVE  \/ \A x \in Places : At(s, x, v)' <=> At(s, x, v)
               \/ \E y \in Places : \A x \in Places : At(s, x, v)' <=> x = y
    <3>1. v # 0
      BY DEF ContentsAreLive
    <3>2. CASE s = s0 /\ v = v0
      <4>1. archive[prog][s] = v
        BY <2>1, <3>2
      <4>2. source[s] # v /\ partial[s] # v /\ v \notin old[s]
            /\ \A q \in AllPrograms : archive[q][s] = v => q = prog
        BY <4>1, WhereItLies
      <4>3. \A x \in Places : At(s, x, v)' <=> x = "source"
        BY <1>1, <2>1, <2>2, <3>1, <3>2, <4>2 DEF At, Places, AllPrograms
      <4> QED
        BY <4>3 DEF Places
    <3>3. CASE ~(s = s0 /\ v = v0)
      BY <1>1, <2>1, <2>2, <3>1, <3>3 DEF At
    <3> QED
      BY <3>2, <3>3
  <2>4. NothingLost'
    BY <2>3, RelocationKeeps
  <2>5. ContentsAreLive'
    BY <1>1, <2>1, <2>2 DEF ContentsAreLive
  <2> QED
    BY <2>4, <2>5
<1>4. root = "part" \/ (root = "archive" /\ target[prog] = "ours")
  BY DEF Archived, TypeOK
<1> QED
  BY <1>2, <1>3, <1>4

\* The rename of the staging directory to an archive that holds nothing.
LEMMA PublishKeeps ==
    ASSUME TypeOK, NothingLost, ContentsAreLive, archive[prog] = None,
           archive' = [archive EXCEPT ![prog] = partial], partial' = None,
           UNCHANGED <<source, old, live>>
    PROVE  NothingLost' /\ ContentsAreLive'
<1>1. \A p \in AllPrograms : \A s \in Names :
         archive'[p][s] = IF p = prog THEN partial[s] ELSE archive[p][s]
  BY DEF TypeOK
<1>2. \A s \in Names : partial'[s] = 0 /\ archive[prog][s] = 0
  BY DEF None
<1>3. ASSUME NEW s \in Names, NEW v \in live[s]
      PROVE  \/ \A x \in Places : At(s, x, v)' <=> At(s, x, v)
             \/ \E y \in Places : \A x \in Places : At(s, x, v)' <=> x = y
  <2>1. v # 0
    BY DEF ContentsAreLive
  <2>2. CASE partial[s] = v
    <3>1. source[s] # v /\ v \notin old[s] /\ \A p \in AllPrograms : archive[p][s] # v
      BY <2>2, WhereItLies
    <3>2. \A x \in Places : At(s, x, v)' <=> x = prog
      BY <1>1, <1>2, <2>1, <2>2, <3>1 DEF At, Places, AllPrograms, TypeOK
    <3> QED
      BY <3>2 DEF Places, TypeOK
  <2>3. CASE partial[s] # v
    BY <1>1, <1>2, <2>1, <2>3 DEF At
  <2> QED
    BY <2>2, <2>3
<1>4. NothingLost'
  BY <1>3, RelocationKeeps
<1>5. ContentsAreLive'
  BY <1>1, <1>2 DEF ContentsAreLive
<1> QED
  BY <1>4, <1>5

\* What a run leaves in its staging directory is still there.
LEMMA AbandonKeeps ==
    ASSUME TypeOK, NothingLost, ContentsAreLive, Abandon, UNCHANGED <<source, archive, live>>
    PROVE  NothingLost' /\ ContentsAreLive'
<1>1. \A s \in Names : old'[s] = old[s] \cup ({partial[s]} \ {0}) /\ partial'[s] = 0
  BY DEF Abandon, None
<1>2. ASSUME NEW s \in Names, NEW v \in live[s]
      PROVE  \/ \A x \in Places : At(s, x, v)' <=> At(s, x, v)
             \/ \E y \in Places : \A x \in Places : At(s, x, v)' <=> x = y
  <2>1. v # 0
    BY DEF ContentsAreLive
  <2>2. CASE partial[s] = v
    <3>1. source[s] # v /\ v \notin old[s] /\ \A p \in AllPrograms : archive[p][s] # v
      BY <2>2, WhereItLies
    <3>2. \A x \in Places : At(s, x, v)' <=> x = "left"
      BY <1>1, <2>1, <2>2, <3>1 DEF At, Places, AllPrograms
    <3> QED
      BY <3>2 DEF Places
  <2>3. CASE partial[s] # v
    BY <1>1, <2>1, <2>3 DEF At
  <2> QED
    BY <2>2, <2>3
<1>3. NothingLost'
  BY <1>2, RelocationKeeps
<1>4. ContentsAreLive'
  BY <1>1 DEF ContentsAreLive
<1> QED
  BY <1>3, <1>4

\* A content another process writes is new, and takes the place of one that is gone for good.
LEMMA WriteKeeps ==
    ASSUME MaxVersion \in Nat, TypeOK, NothingLost, ContentsAreLive, NEW s0 \in Names, Write(s0)
    PROVE  NothingLost' /\ ContentsAreLive'
<1>1. PICK w \in 1..MaxVersion :
         /\ \A u \in live[s0] : u < w
         /\ \/ /\ source' = [source EXCEPT ![s0] = w]
               /\ live' = [live EXCEPT ![s0] = (@ \ {source[s0]}) \cup {w}]
               /\ UNCHANGED partial
            \/ /\ partial[s0] # 0 /\ partial' = [partial EXCEPT ![s0] = w]
               /\ live' = [live EXCEPT ![s0] = (@ \ {partial[s0]}) \cup {w}]
               /\ UNCHANGED source
  BY DEF Write
<1>2. archive' = archive /\ old' = old
  BY DEF Write
<1>3. w \notin live[s0] /\ w # 0
  BY <1>1
<1>4. w \notin old[s0] /\ source[s0] # w /\ partial[s0] # w /\ \A p \in AllPrograms : archive[p][s0] # w
  BY <1>3 DEF ContentsAreLive
<1>5. CASE source' = [source EXCEPT ![s0] = w] /\ partial' = partial
           /\ live' = [live EXCEPT ![s0] = (@ \ {source[s0]}) \cup {w}]
  <2>1. \A s \in Names : source'[s] = IF s = s0 THEN w ELSE source[s]
    BY <1>5 DEF TypeOK
  <2>2. \A s \in Names : live'[s] = IF s = s0 THEN (live[s0] \ {source[s0]}) \cup {w} ELSE live[s]
    BY <1>5 DEF TypeOK
  <2>3. ASSUME NEW s \in Names, NEW v \in live'[s]
        PROVE  \E x \in Places : At(s, x, v)' /\ \A y \in Places : At(s, y, v)' => y = x
    <3>1. CASE s = s0 /\ v = w
      <4>1. \A x \in Places : At(s, x, v)' <=> x = "source"
        BY <1>2, <1>4, <1>5, <2>1, <3>1 DEF At, Places, AllPrograms
      <4> QED
        BY <4>1 DEF Places
    <3>2. CASE ~(s = s0 /\ v = w)
      <4>1. v \in live[s] /\ (s = s0 => v # source[s0])
        BY <2>2, <3>2
      <4>2. \A x \in Places : At(s, x, v)' <=> At(s, x, v)
        BY <1>2, <1>5, <2>1, <3>2, <4>1 DEF At
      <4> QED
        BY <4>1, <4>2 DEF NothingLost
    <3> QED
      BY <3>1, <3>2
  <2>4. ContentsAreLive'
    <3> SUFFICES ASSUME NEW s \in Names
                 PROVE  /\ 0 \notin live'[s] /\ old'[s] \subseteq live'[s]
                        /\ source'[s] \in live'[s] \cup {0} /\ partial'[s] \in live'[s] \cup {0}
                        /\ \A p \in AllPrograms : archive'[p][s] \in live'[s] \cup {0}
      BY DEF ContentsAreLive, Names, AllPrograms
    <3>1. CASE s # s0
      BY <1>2, <1>5, <2>1, <2>2, <3>1 DEF ContentsAreLive
    <3>2. CASE s = s0 /\ source[s0] = 0
      BY <1>2, <1>3, <1>5, <2>1, <2>2, <3>2 DEF ContentsAreLive
    <3>3. CASE s = s0 /\ source[s0] # 0
      <4>1. source[s0] \in live[s0]
        BY <3>3 DEF ContentsAreLive
      <4>2. partial[s0] # source[s0] /\ source[s0] \notin old[s0] /\ \A p \in AllPrograms : archive[p][s0] # source[s0]
        BY <4>1, WhereItLies
      <4> QED
        BY <1>2, <1>3, <1>5, <2>1, <2>2, <3>3, <4>2 DEF ContentsAreLive
    <3> QED
      BY <3>1, <3>2, <3>3
  <2> QED
    BY <2>3, <2>4 DEF NothingLost, Places, AllPrograms
<1>6. CASE partial[s0] # 0 /\ partial' = [partial EXCEPT ![s0] = w] /\ source' = source
           /\ live' = [live EXCEPT ![s0] = (@ \ {partial[s0]}) \cup {w}]
  <2>1. \A s \in Names : partial'[s] = IF s = s0 THEN w ELSE partial[s]
    BY <1>6 DEF TypeOK
  <2>2. \A s \in Names : live'[s] = IF s = s0 THEN (live[s0] \ {partial[s0]}) \cup {w} ELSE live[s]
    BY <1>6 DEF TypeOK
  <2>3. partial[s0] \in live[s0]
    BY <1>6 DEF ContentsAreLive
  <2>4. source[s0] # partial[s0] /\ partial[s0] \notin old[s0] /\ \A p \in AllPrograms : archive[p][s0] # partial[s0]
    BY <2>3, WhereItLies
  <2>5. ASSUME NEW s \in Names, NEW v \in live'[s]
        PROVE  \E x \in Places : At(s, x, v)' /\ \A y \in Places : At(s, y, v)' => y = x
    <3>1. CASE s = s0 /\ v = w
      <4>1. \A x \in Places : At(s, x, v)' <=> x = "staging"
        BY <1>2, <1>4, <1>6, <2>1, <3>1 DEF At, Places, AllPrograms
      <4> QED
        BY <4>1 DEF Places
    <3>2. CASE ~(s = s0 /\ v = w)
      <4>1. v \in live[s] /\ (s = s0 => v # partial[s0])
        BY <2>2, <3>2
      <4>2. \A x \in Places : At(s, x, v)' <=> At(s, x, v)
        BY <1>2, <1>6, <2>1, <3>2, <4>1 DEF At
      <4> QED
        BY <4>1, <4>2 DEF NothingLost
    <3> QED
      BY <3>1, <3>2
  <2>6. ContentsAreLive'
    BY <1>2, <1>3, <1>6, <2>1, <2>2, <2>4 DEF ContentsAreLive
  <2> QED
    BY <2>5, <2>6 DEF NothingLost, Places, AllPrograms
<1> QED
  BY <1>1, <1>5, <1>6

\* Each action keeps the invariant.
LEMMA RefuseKeeps ==
    ASSUME ArchiveAssumption, ArchiveInv, NEW p \in Programs, Refuse(p) PROVE ArchiveInv'
<1> USE DEF ArchiveInv, ArchiveSafety
<1>1. NothingLost' /\ ContentsAreLive'
  BY ContentsStay DEF Refuse, Disk, contents
<1>2. TypeOK'
  BY DEF TypeOK, Refuse, Disk, ArchiveAssumption
<1>3. CompletedIsExact' /\ NoRunOverLeftovers'
  BY DEF CompletedIsExact, NoRunOverLeftovers, Refuse, NoReport
<1>4. TargetsHold'
  BY DEF TargetsHold, Refuse, Disk, AllPrograms
<1>5. StageShape'
  <2>1. p \in AllPrograms
    BY DEF ArchiveAssumption
  <2>2. prog' = p /\ moved' = 0 /\ pc' = "idle" /\ partial' = None /\ back' = 0
    BY DEF Refuse, Disk, StageShape
  <2>3. Len(Order(p)) \in Nat /\ 0 \in 0..Len(Order(p))
    BY <2>1, OrderFacts
  <2>4. moved' \in 0..Len(Order(prog'))
    BY <2>2, <2>3
  <2> QED
    BY <2>2, <2>4 DEF StageShape, None
<1> QED
  BY <1>1, <1>2, <1>3, <1>4, <1>5

\* The record of an incident moves nothing.
LEMMA RecordIncidentKeeps ==
    ASSUME ArchiveInv, RecordIncident PROVE ArchiveInv'
<1> USE DEF ArchiveInv, ArchiveSafety
<1>1. NothingLost' /\ ContentsAreLive'
  BY ContentsStay DEF RecordIncident, contents
<1>2. TypeOK'
  BY DEF TypeOK, RecordIncident
<1>3. CompletedIsExact' /\ NoRunOverLeftovers' /\ TargetsHold' /\ StageShape'
  BY DEF CompletedIsExact, NoRunOverLeftovers, TargetsHold, StageShape, RecordIncident
<1> QED
  BY <1>1, <1>2, <1>3

\* A run begins with an empty staging directory.
LEMMA BeginKeeps ==
    ASSUME ArchiveAssumption, ArchiveInv, NEW p \in Programs, Begin(p) PROVE ArchiveInv'
<1> USE DEF ArchiveInv, ArchiveSafety
<1>1. NothingLost' /\ ContentsAreLive'
  BY ContentsStay DEF Begin, Disk, contents
<1>2. TypeOK'
  <2>1. snap' \in [Names -> Versions]
    BY DEF TypeOK, Begin, Versions, ArchiveAssumption
  <2>2. runs' \in 0..MaxRuns /\ back' \in 0..moved'
    BY DEF TypeOK, StageShape, Begin, ArchiveAssumption
  <2> QED
    BY <2>1, <2>2 DEF TypeOK, Begin, Disk, ArchiveAssumption
<1>3. CompletedIsExact'
  BY DEF CompletedIsExact, Begin, NoReport
<1>4. NoRunOverLeftovers'
  BY DEF NoRunOverLeftovers, Begin, Disk, Preflight, RebuildPreflight, TransactionalPreflight
<1>5. TargetsHold'
  BY DEF TargetsHold, Begin, Disk, AllPrograms
<1>6. StageShape'
  <2>1. Len(Order(p)) \in Nat
    BY OrderFacts DEF ArchiveAssumption
  <2>2. prog' = p /\ moved' = 0 /\ pc' = "move" /\ partial' = None /\ back' = 0 /\ ~report'.completed
    BY DEF Begin, Disk, StageShape, NoReport
  <2>3. \A s \in Names : partial'[s] = 0
    BY <2>2 DEF None
  <2> QED
    BY <2>1, <2>2, <2>3 DEF StageShape
<1> QED
  BY <1>1, <1>2, <1>3, <1>4, <1>5, <1>6

\* The next source moves to a place that holds nothing of its name.
LEMMA MoveSourceKeeps ==
    ASSUME ArchiveAssumption, ArchiveInv, MoveSource PROVE ArchiveInv'
<1> USE DEF ArchiveInv, ArchiveSafety
<1>1. prog \in AllPrograms /\ pc = "move" /\ moved \in 0..Len(Order(prog)) /\ moved < Len(Order(prog))
  BY DEF TypeOK, MoveSource, StageShape
<1> DEFINE s0 == Order(prog)[moved + 1]
<1>2. s0 \in Names /\ \A j \in 1..moved : Order(prog)[j] # s0
  BY <1>1, OrderFacts
<1>3. partial[s0] = 0
  BY <1>1, <1>2 DEF StageShape
<1>4. /\ source[s0] # 0 /\ source' = [source EXCEPT ![s0] = 0]
      /\ partial' = [partial EXCEPT ![s0] = source[s0]]
      /\ UNCHANGED <<archive, old, live>>
  BY DEF MoveSource
<1> HIDE DEF s0
<1>5. NothingLost' /\ ContentsAreLive'
  BY <1>2, <1>3, <1>4, MovesOne
<1>6. TypeOK'
  <2>1. source' \in [Names -> Versions] /\ partial' \in [Names -> Versions]
    BY <1>2, <1>4 DEF TypeOK, Versions, ArchiveAssumption
  <2>2. back' \in 0..moved'
    BY <1>1 DEF TypeOK, MoveSource
  <2> QED
    BY <2>1, <2>2 DEF TypeOK, MoveSource
<1>7. CompletedIsExact' /\ NoRunOverLeftovers' /\ TargetsHold'
  BY DEF CompletedIsExact, NoRunOverLeftovers, TargetsHold, MoveSource, AllPrograms
<1>8. StageShape'
  <2>1. moved' = moved + 1 /\ prog' = prog /\ pc' = "move" /\ back' = back /\ report' = report
    BY DEF MoveSource
  <2>2. moved' \in 0..Len(Order(prog'))
    BY <1>1, <2>1, OrderFacts
  <2>3. ASSUME NEW s \in Names, partial'[s] # 0
        PROVE  \E j \in 1..moved' : Order(prog')[j] = s
    <3>1. CASE s = s0
      BY <1>1, <2>1, <3>1 DEF s0
    <3>2. CASE s # s0
      <4>1. partial[s] # 0
        BY <1>4, <2>3, <3>2 DEF TypeOK
      <4>2. PICK j \in 1..moved : Order(prog)[j] = s
        BY <1>1, <4>1 DEF StageShape
      <4> QED
        BY <1>1, <2>1, <4>2
    <3> QED
      BY <3>1, <3>2
  <2>4. back' = 0 /\ ~report'.completed
    BY <1>1, <2>1 DEF StageShape
  <2> HIDE DEF ArchiveInv, ArchiveSafety
  <2> QED
    BY <2>1, <2>2, <2>3, <2>4 DEF StageShape
<1> QED
  BY <1>5, <1>6, <1>7, <1>8

\* A verification only reads.
LEMMA VerifyPartKeeps ==
    ASSUME ArchiveInv, VerifyPart PROVE ArchiveInv'
<1> USE DEF ArchiveInv, ArchiveSafety
<1>1. /\ pc = "move" /\ pc' = "publish"
      /\ UNCHANGED <<prog, runs, staging, snap, moved, root, back, hit, report>> /\ UNCHANGED Disk
  BY DEF VerifyPart
<1>2. NothingLost' /\ ContentsAreLive'
  BY <1>1, ContentsStay DEF Disk, contents
<1>3. TypeOK'
  BY <1>1 DEF TypeOK, Disk
<1>4. CompletedIsExact' /\ NoRunOverLeftovers' /\ TargetsHold' /\ StageShape'
  BY <1>1 DEF CompletedIsExact, NoRunOverLeftovers, TargetsHold, StageShape, Disk, AllPrograms
<1> QED
  BY <1>2, <1>3, <1>4

\* The published archive held nothing before.
LEMMA PublishKeepsAll ==
    ASSUME ArchiveAssumption, ArchiveInv, Publish PROVE ArchiveInv'
<1> USE DEF ArchiveInv, ArchiveSafety
<1>1. prog \in AllPrograms /\ pc = "publish" /\ archive[prog] = None
  BY DEF TypeOK, Publish, TargetsHold
<1>2. NothingLost' /\ ContentsAreLive'
  BY <1>1, PublishKeeps DEF Publish
<1>3. TypeOK'
  <2>1. archive' \in [AllPrograms -> [Names -> Versions]]
    BY DEF TypeOK, Publish
  <2>2. partial' \in [Names -> Versions]
    BY DEF TypeOK, Publish, None, Versions, ArchiveAssumption
  <2> QED
    BY <2>1, <2>2 DEF TypeOK, Publish
<1>4. target'[prog] = "ours" /\ \A p \in AllPrograms \ {prog} : target'[p] = target[p] /\ archive'[p] = archive[p]
  BY DEF TypeOK, Publish
<1>5. CompletedIsExact' /\ NoRunOverLeftovers'
  BY <1>1 DEF CompletedIsExact, NoRunOverLeftovers, StageShape, Publish
<1>6. TargetsHold'
  BY <1>4 DEF TargetsHold, AllPrograms, None, Names
<1>7. StageShape'
  BY <1>1, <1>4 DEF StageShape, Publish
<1> QED
  BY <1>2, <1>3, <1>5, <1>6, <1>7

\* Completion is reported for an archive that was read back equal to the snapshot.
LEMMA CompleteKeeps ==
    ASSUME ArchiveInv, Complete PROVE ArchiveInv'
<1> USE DEF ArchiveInv, ArchiveSafety
<1>1. /\ pc = "verify" /\ pc' = "idle" /\ moved' = 0
      /\ UNCHANGED <<prog, runs, staging, snap, root, back, hit>> /\ UNCHANGED Disk
  BY DEF Complete
<1>2. prog \in AllPrograms /\ target[prog] = "ours" /\ back = 0
  BY <1>1 DEF StageShape, TypeOK
<1>3. archive[prog] = snap
  BY <1>2 DEF Complete, AllPrograms, TransactionalPublished, UnprunedPublished, DegradedPublished, AttemptPublished
<1>4. NothingLost' /\ ContentsAreLive'
  BY <1>1, ContentsStay DEF Disk, contents
<1>5. TypeOK'
  BY <1>1, <1>2 DEF TypeOK, Disk
<1>6. CompletedIsExact' /\ NoRunOverLeftovers' /\ TargetsHold'
  BY <1>1, <1>2, <1>3 DEF CompletedIsExact, NoRunOverLeftovers, TargetsHold, Disk, AllPrograms
<1>7. StageShape'
  <2>1. partial' = None /\ None' = None /\ moved' \in 0..Len(Order(prog'))
    BY <1>1, <1>2, OrderFacts DEF StageShape, Disk, None
  <2> QED
    BY <1>1, <1>2, <2>1 DEF StageShape
<1> QED
  BY <1>4, <1>5, <1>6, <1>7

\* A failure starts the rollback with everything that was moved.
LEMMA FailKeeps ==
    ASSUME ArchiveInv, Fail PROVE ArchiveInv'
<1> USE DEF ArchiveInv, ArchiveSafety
<1>1. NothingLost' /\ ContentsAreLive'
  BY ContentsStay DEF Fail, Disk, contents
<1>2. TypeOK'
  <2>1. root' \in {"part", "archive"}
    BY DEF Fail, RollbackRoot
  <2>2. back' \in 0..moved'
    BY DEF Fail, StageShape, Disk
  <2> QED
    BY <2>1, <2>2 DEF TypeOK, Fail, Disk
<1>3. CompletedIsExact' /\ NoRunOverLeftovers' /\ TargetsHold'
  BY DEF CompletedIsExact, NoRunOverLeftovers, TargetsHold, Fail, Disk, AllPrograms
<1>4. StageShape'
  BY DEF StageShape, Fail, Disk
<1> QED
  BY <1>1, <1>2, <1>3, <1>4

\* The rollback moves a content only to an empty place.
LEMMA RollbackKeeps ==
    ASSUME ArchiveAssumption, ArchiveInv, Rollback PROVE ArchiveInv'
<1> USE DEF ArchiveInv, ArchiveSafety
<1>1. /\ pc = "rollback" /\ back > 0 /\ back' = back - 1
      /\ UNCHANGED <<pc, prog, runs, old, staging, stale, target, incident, snap, moved, root, hit, report, live>>
  BY DEF Rollback
<1>2. prog \in AllPrograms /\ moved \in 0..Len(Order(prog)) /\ back \in 1..moved
  BY <1>1 DEF TypeOK, StageShape
<1> DEFINE s0 == Order(prog)[back]
<1>3. s0 \in Names
  BY <1>2, OrderFacts
<1>4. IF Archived(s0) = 0 \/ source[s0] # 0 THEN UNCHANGED <<source, partial, archive>> ELSE PutBack(s0)
  BY DEF Rollback
<1> HIDE DEF s0
<1>5. CASE UNCHANGED <<source, partial, archive>>
  <2>1. NothingLost' /\ ContentsAreLive'
    BY <1>1, <1>5, ContentsStay DEF contents
  <2>2. TypeOK'
    BY <1>1, <1>2, <1>5 DEF TypeOK
  <2>3. CompletedIsExact' /\ NoRunOverLeftovers' /\ TargetsHold' /\ StageShape'
    BY <1>1, <1>5 DEF CompletedIsExact, NoRunOverLeftovers, TargetsHold, StageShape
  <2> QED
    BY <2>1, <2>2, <2>3
<1>6. CASE Archived(s0) # 0 /\ source[s0] = 0 /\ PutBack(s0)
  <2>1. NothingLost' /\ ContentsAreLive'
    BY <1>1, <1>2, <1>3, <1>6, PutsBackOne
  <2>2. TypeOK'
    <3>1. Archived(s0) \in Versions
      BY <1>2, <1>3, <1>6 DEF TypeOK, Archived
    <3>2. source' \in [Names -> Versions]
      BY <1>3, <1>6, <3>1 DEF TypeOK, PutBack
    <3>3. partial' \in [Names -> Versions]
      BY <1>3, <1>6 DEF TypeOK, PutBack, Versions, ArchiveAssumption
    <3>4. archive' \in [AllPrograms -> [Names -> Versions]]
      <4>1. CASE archive' = archive
        BY <4>1 DEF TypeOK
      <4>2. CASE archive' = [archive EXCEPT ![prog][s0] = 0]
        <5>1. 0 \in Versions /\ archive[prog] \in [Names -> Versions]
          BY <1>2 DEF TypeOK, Versions, ArchiveAssumption
        <5>2. [archive[prog] EXCEPT ![s0] = 0] \in [Names -> Versions]
          BY <1>3, <5>1
        <5>3. archive' = [archive EXCEPT ![prog] = [archive[prog] EXCEPT ![s0] = 0]]
          BY <1>2, <4>2 DEF TypeOK
        <5> QED
          BY <1>2, <5>2, <5>3 DEF TypeOK
      <4> QED
        BY <1>6, <4>1, <4>2 DEF PutBack
    <3>5. back' \in 0..moved'
      BY <1>1, <1>2
    <3> QED
      BY <1>1, <3>2, <3>3, <3>4, <3>5 DEF TypeOK
  <2>3. CompletedIsExact' /\ NoRunOverLeftovers'
    BY <1>1 DEF CompletedIsExact, NoRunOverLeftovers, StageShape
  <2>4. TargetsHold'
    <3> SUFFICES ASSUME NEW p \in AllPrograms, target[p] # "ours"
                 PROVE  archive'[p] = None
      BY <1>1 DEF TargetsHold, AllPrograms
    <3>1. archive[p] = None
      BY DEF TargetsHold
    <3>2. CASE root = "part"
      BY <1>6, <3>1, <3>2 DEF PutBack
    <3>3. CASE root # "part"
      <4>1. target[prog] = "ours"
        BY <1>2, <1>6, <3>3 DEF Archived, TypeOK
      <4> QED
        BY <1>6, <3>1, <3>3, <4>1 DEF PutBack, TypeOK
    <3> QED
      BY <3>2, <3>3
  <2>5. StageShape'
    BY <1>1 DEF StageShape
  <2> QED
    BY <2>1, <2>2, <2>3, <2>4, <2>5
<1> QED
  BY <1>4, <1>5, <1>6

\* A rename that fails moves nothing.
LEMMA RollbackFailsKeeps ==
    ASSUME ArchiveInv, RollbackFails PROVE ArchiveInv'
<1> USE DEF ArchiveInv, ArchiveSafety
<1>1. NothingLost' /\ ContentsAreLive'
  BY ContentsStay DEF RollbackFails, Disk, contents
<1>2. TypeOK'
  <2>1. back' \in 0..moved' /\ hit' \in BOOLEAN
    BY DEF RollbackFails, TypeOK, StageShape
  <2> QED
    BY <2>1 DEF TypeOK, RollbackFails, Disk
<1>3. CompletedIsExact' /\ NoRunOverLeftovers' /\ TargetsHold' /\ StageShape'
  BY DEF CompletedIsExact, NoRunOverLeftovers, TargetsHold, StageShape, RollbackFails, Disk, AllPrograms
<1> QED
  BY <1>1, <1>2, <1>3

\* The end of a run whose staging directory stays: a failure that is reported, or a crash.
LEMMA EndKeeps ==
    ASSUME ArchiveAssumption, ArchiveInv, Abandon, pc' = "idle", moved' = 0, back' = 0, ~report'.completed,
           UNCHANGED <<prog, runs, source, archive, target, incident, snap, root, hit, live>>
    PROVE  ArchiveInv'
<1> USE DEF ArchiveInv, ArchiveSafety
<1>1. NothingLost' /\ ContentsAreLive'
  BY AbandonKeeps
<1>2. TypeOK'
  <2>1. partial' \in [Names -> Versions] /\ old' \in [Names -> SUBSET Versions]
    BY DEF Abandon, None, TypeOK, Versions, ArchiveAssumption
  <2>2. stale' \subseteq AllPrograms /\ staging' \in BOOLEAN
    BY DEF Abandon, TypeOK
  <2> QED
    BY <2>1, <2>2 DEF TypeOK
<1>3. CompletedIsExact' /\ NoRunOverLeftovers' /\ TargetsHold'
  BY DEF CompletedIsExact, NoRunOverLeftovers, TargetsHold
<1>4. StageShape'
  <2>1. prog \in AllPrograms /\ partial' = None
    BY DEF TypeOK, Abandon
  <2>2. None = None'
    BY DEF None
  <2> QED
    BY <2>1, <2>2, OrderFacts DEF StageShape
<1> QED
  BY <1>1, <1>2, <1>3, <1>4

\* A reported failure leaves its leftovers in the staging directory.
LEMMA ReportFailureKeeps ==
    ASSUME ArchiveAssumption, ArchiveInv, ReportFailure PROVE ArchiveInv'
<1>1. ~report'.completed
  BY DEF ReportFailure
<1>2. /\ Abandon /\ pc' = "idle" /\ moved' = 0 /\ back' = 0
      /\ UNCHANGED <<prog, runs, source, archive, target, incident, snap, root, hit, live>>
  BY DEF ReportFailure
<1> QED
  BY <1>1, <1>2, EndKeeps

\* So does a crash.
LEMMA CrashKeeps ==
    ASSUME ArchiveAssumption, ArchiveInv, Crash PROVE ArchiveInv'
<1>1. ~report'.completed
  BY DEF Crash, NoReport
<1>2. /\ Abandon /\ pc' = "idle" /\ moved' = 0 /\ back' = 0
      /\ UNCHANGED <<prog, runs, source, archive, target, incident, snap, root, hit, live>>
  BY DEF Crash
<1> QED
  BY <1>1, <1>2, EndKeeps

\* What other processes write.
LEMMA WriteKeepsAll ==
    ASSUME ArchiveAssumption, ArchiveInv, NEW s \in Names, Write(s) PROVE ArchiveInv'
<1> USE DEF ArchiveInv, ArchiveSafety
<1>1. NothingLost' /\ ContentsAreLive'
  BY WriteKeeps DEF ArchiveAssumption
<1>2. UNCHANGED <<pc, prog, runs, archive, old, staging, stale, target, incident, snap, moved, root, back, hit, report>>
  BY DEF Write
<1>3. PICK v \in 1..MaxVersion :
         \/ /\ source' = [source EXCEPT ![s] = v]
            /\ live' = [live EXCEPT ![s] = (@ \ {source[s]}) \cup {v}]
            /\ UNCHANGED partial
         \/ /\ partial[s] # 0 /\ partial' = [partial EXCEPT ![s] = v]
            /\ live' = [live EXCEPT ![s] = (@ \ {partial[s]}) \cup {v}]
            /\ UNCHANGED source
  BY DEF Write
<1>4. v \in Versions
  BY DEF Versions, ArchiveAssumption
<1>5. TypeOK'
  <2>1. source' \in [Names -> Versions] /\ partial' \in [Names -> Versions]
    BY <1>3, <1>4, SMTT(30) DEF TypeOK
  <2>2. live' \in [Names -> SUBSET Versions]
    BY <1>3, <1>4 DEF TypeOK
  <2> QED
    BY <1>2, <2>1, <2>2 DEF TypeOK
<1>6. CompletedIsExact' /\ NoRunOverLeftovers' /\ TargetsHold'
  BY <1>2 DEF CompletedIsExact, NoRunOverLeftovers, TargetsHold
<1>7. StageShape'
  <2>1. \A x \in Names : partial'[x] # 0 => partial[x] # 0
    BY <1>3 DEF TypeOK
  <2>2. pc \in {"idle", "verify"} => partial' = partial
    BY <1>3 DEF StageShape, None
  <2> QED
    BY <1>2, <2>1, <2>2 DEF StageShape
<1> QED
  BY <1>1, <1>5, <1>6, <1>7

\* A target that somebody else creates is not an archive published here.
LEMMA IntrudeKeeps ==
    ASSUME ArchiveInv, NEW p \in AllPrograms, Intrude(p) PROVE ArchiveInv'
<1> USE DEF ArchiveInv, ArchiveSafety
<1>1. NothingLost' /\ ContentsAreLive'
  BY ContentsStay DEF Intrude, contents
<1>2. TypeOK'
  BY DEF TypeOK, Intrude
<1>3. \A q \in AllPrograms : target[q] = "ours" <=> target'[q] = "ours"
  BY DEF TypeOK, Intrude
<1>4. prog \in AllPrograms
  BY DEF TypeOK
<1>5. CompletedIsExact' /\ NoRunOverLeftovers' /\ TargetsHold' /\ StageShape'
  BY <1>3, <1>4 DEF CompletedIsExact, NoRunOverLeftovers, TargetsHold, StageShape, Intrude
<1> QED
  BY <1>1, <1>2, <1>5

\* The invariant holds before the first run.
LEMMA ArchiveInitially ==
    ASSUME ArchiveAssumption, Init PROVE ArchiveInv
<1>1. PICK absent \in SUBSET Names : source = [s \in Names |-> IF s \in absent THEN 0 ELSE 1]
  BY DEF Init
<1>2. 0 \in Versions /\ 1 \in Versions
  BY DEF Versions, ArchiveAssumption
<1>3. \A s \in Names : /\ source[s] \in {0, 1} /\ partial[s] = 0 /\ old[s] = {}
                       /\ live[s] = IF source[s] = 0 THEN {} ELSE {1}
                       /\ \A p \in AllPrograms : archive[p][s] = 0
  BY <1>1 DEF Init, None
<1>4. TypeOK
  <2>1. source \in [Names -> Versions] /\ live \in [Names -> SUBSET Versions]
    BY <1>1, <1>2 DEF Init
  <2>2. /\ partial \in [Names -> Versions] /\ snap \in [Names -> Versions] /\ incident \in [Names -> Versions]
        /\ archive \in [AllPrograms -> [Names -> Versions]] /\ old \in [Names -> SUBSET Versions]
    BY <1>2 DEF Init, None
  <2>3. target \in [AllPrograms -> {"absent", "ours", "foreign"}]
    BY DEF Init
  <2>4. runs \in 0..MaxRuns /\ back \in 0..moved
    BY DEF Init, ArchiveAssumption
  <2>5. pc = "idle" /\ prog \in AllPrograms /\ staging \in BOOLEAN /\ hit \in BOOLEAN /\ stale \subseteq AllPrograms
        /\ root \in {"part", "archive"}
    BY DEF Init, AllPrograms
  <2> QED
    BY <2>1, <2>2, <2>3, <2>4, <2>5 DEF TypeOK
<1>5. NothingLost
  <2> SUFFICES ASSUME NEW s \in Names, NEW v \in live[s]
               PROVE  \E x \in Places : At(s, x, v) /\ \A y \in Places : At(s, y, v) => y = x
    BY DEF NothingLost
  <2>1. v = 1 /\ source[s] = 1
    BY <1>3
  <2>2. \A x \in Places : At(s, x, v) <=> x = "source"
    BY <1>3, <2>1 DEF At, Places, AllPrograms
  <2> QED
    BY <2>2 DEF Places
<1>6. ContentsAreLive
  BY <1>3 DEF ContentsAreLive
<1>7. CompletedIsExact /\ NoRunOverLeftovers /\ TargetsHold
  BY DEF CompletedIsExact, NoRunOverLeftovers, TargetsHold, Init, NoReport
<1>8. StageShape
  <2>1. Len(Order(prog)) \in Nat
    BY <1>4, OrderFacts DEF TypeOK
  <2> QED
    BY <2>1 DEF StageShape, Init
<1> QED
  BY <1>4, <1>5, <1>6, <1>7, <1>8 DEF ArchiveInv, ArchiveSafety

\* Every step keeps the invariant.
LEMMA ArchiveStep ==
    ASSUME ArchiveAssumption, ArchiveInv, [Next]_vars PROVE ArchiveInv'
<1>1. ASSUME NEW p \in Programs, Refuse(p) PROVE ArchiveInv'
  BY <1>1, RefuseKeeps
<1>2. ASSUME NEW p \in Programs, Begin(p) PROVE ArchiveInv'
  BY <1>2, BeginKeeps
<1>3. ASSUME NEW p \in Programs, Intrude(p) PROVE ArchiveInv'
  BY <1>3, IntrudeKeeps DEF ArchiveAssumption
<1>4. CASE RecordIncident
  BY <1>4, RecordIncidentKeeps
<1>5. CASE MoveSource
  BY <1>5, MoveSourceKeeps
<1>6. CASE VerifyPart
  BY <1>6, VerifyPartKeeps
<1>7. CASE Publish
  BY <1>7, PublishKeepsAll
<1>8. CASE Complete
  BY <1>8, CompleteKeeps
<1>9. CASE Fail
  BY <1>9, FailKeeps
<1>10. CASE Rollback
  BY <1>10, RollbackKeeps
<1>11. CASE RollbackFails
  BY <1>11, RollbackFailsKeeps
<1>12. CASE ReportFailure
  BY <1>12, ReportFailureKeeps
<1>13. CASE Crash
  BY <1>13, CrashKeeps
<1>14. ASSUME NEW s \in Names, Write(s) PROVE ArchiveInv'
  BY <1>14, WriteKeepsAll
<1>15. CASE UNCHANGED vars
  <2>1. NothingLost' /\ ContentsAreLive'
    BY <1>15, ContentsStay DEF ArchiveInv, ArchiveSafety, vars, contents
  <2>2. TypeOK'
    BY <1>15 DEF ArchiveInv, ArchiveSafety, TypeOK, vars
  <2>3. CompletedIsExact' /\ NoRunOverLeftovers' /\ TargetsHold' /\ StageShape'
    BY <1>15 DEF ArchiveInv, ArchiveSafety, CompletedIsExact, NoRunOverLeftovers, TargetsHold, StageShape, vars
  <2> QED
    BY <2>1, <2>2, <2>3 DEF ArchiveInv, ArchiveSafety
<1> QED
  BY <1>1, <1>2, <1>3, <1>4, <1>5, <1>6, <1>7, <1>8, <1>9, <1>10, <1>11, <1>12, <1>13, <1>14, <1>15 DEF Next

\* Whatever archiver runs, fails, crashes or rolls back, and whatever other processes write
\* meanwhile, every content is at exactly one place, and a run that reports completion archived
\* its snapshot.
THEOREM ArchiveSafe == ASSUME ArchiveAssumption PROVE Spec => []ArchiveSafety
<1>1. Init => ArchiveInv
  BY ArchiveInitially
<1>2. ArchiveInv /\ [Next]_vars => ArchiveInv'
  BY ArchiveStep
<1>3. ArchiveInv => ArchiveSafety
  BY DEF ArchiveInv
<1> QED
  BY <1>1, <1>2, <1>3, PTL DEF Spec

-----------------------------------------------------------------------------
(***************************************************************************)
(* What a rollback restores and reports.  ArchiveInv says where contents   *)
(* are; these parts say what a run in progress still owes: each source it  *)
(* took is at its place or in the run's own directories, what is in those  *)
(* directories is not at its place, and the rollback looks where they are. *)
(***************************************************************************)
\* Nothing is reported before the end, and the snapshot is of sources that were
\* there, none newer than the newest content.
SnapshotIsOlder ==
    pc # "idle" =>
        /\ ~report.done
        /\ \A s \in Taken(prog) : snap[s] # 0 /\ \E u \in live[s] : snap[s] <= u

SourceIsHeld ==
    pc # "idle" => \A s \in Taken(prog) : source[s] # 0 \/ partial[s] # 0 \/ archive[prog][s] # 0

\* What the run holds is a source it moved; at its place is nothing, or what
\* was written there since.
HeldWasMoved ==
    pc # "idle" =>
        \A s \in Names : partial[s] # 0 \/ archive[prog][s] # 0 =>
            source[s] # snap[s] /\ \E j \in 1..moved : Order(prog)[j] = s

\* Nobody creates the target this run's rollback decides by.
Alone == Intruder => prog = "attempt"

\* The rollback looks into the directory that holds what was moved.
RootHolds ==
    /\ pc \in {"move", "publish"} => staging /\ target[prog] # "ours" /\ (~Intruder => target[prog] = "absent")
    /\ pc = "verify" => ~staging
    /\ pc = "rollback" /\ staging => target[prog] # "ours" /\ (Alone => root = "part")
    /\ pc = "rollback" /\ ~staging => partial = None /\ target[prog] = "ours" /\ root = "archive"

\* The sources the rollback went over are back.
BackIsDone ==
    pc = "rollback" /\ ~hit =>
        \A j \in (back + 1)..moved : source[Order(prog)[j]] # 0 \/ Archived(Order(prog)[j]) = 0

RunInv == SnapshotIsOlder /\ SourceIsHeld /\ HeldWasMoved /\ RootHolds /\ BackIsDone

\* What an archiver takes are sources.
LEMMA TakenAreNames ==
    ASSUME NEW p \in AllPrograms PROVE Taken(p) \subseteq Names
<1>1. Order(p) \in Seq(Names)
  BY OrderFacts
<1> QED
  BY <1>1 DEF Taken, Range

\* What an archiver takes is what it moves, one source after the other.
LEMMA TakenInOrder ==
    ASSUME NEW p \in AllPrograms
    PROVE  /\ Len(Order(p)) \in Nat /\ Taken(p) \subseteq Names
           /\ \A j \in 1..Len(Order(p)) : Order(p)[j] \in Taken(p)
<1>1. Order(p) \in Seq(Names) /\ Len(Order(p)) \in 2..3
  BY OrderFacts
<1>2. DOMAIN Order(p) = 1..Len(Order(p))
  BY <1>1
<1> QED
  BY <1>1, <1>2, TakenAreNames DEF Taken, Range

\* An archiver begins with all its sources there, and without a target.
LEMMA PreflightFacts ==
    ASSUME NEW p \in AllPrograms, Preflight(p)
    PROVE  Present(Taken(p)) /\ target[p] = "absent"
<1>1. CASE p = "rebuild"
  BY <1>1 DEF Preflight, RebuildPreflight, TransactionalPreflight
<1>2. CASE p = "unpruned"
  BY <1>2 DEF Preflight, UnprunedPreflight
<1>3. CASE p = "degraded"
  BY <1>3 DEF Preflight, DegradedPreflight
<1>4. CASE p = "attempt"
  BY <1>4 DEF Preflight, AttemptPreflight
<1> QED
  BY <1>1, <1>2, <1>3, <1>4 DEF AllPrograms

\* The first state of a run.
LEMMA RunBegins ==
    ASSUME ArchiveAssumption, ArchiveInv, NEW p \in Programs, Begin(p)
    PROVE  RunInv'
<1>1. /\ p \in AllPrograms /\ prog' = p /\ pc = "idle" /\ pc' = "move" /\ staging' = TRUE
      /\ snap' = [s \in Names |-> IF s \in Taken(p) THEN source[s] ELSE 0]
      /\ UNCHANGED <<source, partial, archive, target, live>> /\ report' = NoReport
  BY DEF Begin, ArchiveAssumption, Disk
<1>2. Present(Taken(p)) /\ target[p] = "absent" /\ Taken(p) \subseteq Names
  BY <1>1, PreflightFacts, TakenInOrder DEF Begin
<1>3. partial = None /\ archive[p] = None
  BY <1>1, <1>2 DEF ArchiveInv, StageShape, TargetsHold
<1>4. \A s \in Names : source[s] \in live[s] \cup {0} /\ source[s] \in Nat
  BY DEF ArchiveInv, ArchiveSafety, TypeOK, ContentsAreLive, Versions, ArchiveAssumption
<1>5. \A s \in Taken(p) : snap'[s] = source[s] /\ source[s] # 0
  BY <1>1, <1>2 DEF Present
<1>6. SnapshotIsOlder'
  <2>1. \A s \in Taken(p) : snap'[s] # 0 /\ \E u \in live'[s] : snap'[s] <= u
    BY <1>1, <1>2, <1>4, <1>5
  <2>2. ~report'.done
    BY <1>1 DEF NoReport
  <2> QED
    BY <1>1, <2>1, <2>2 DEF SnapshotIsOlder, Taken
<1>7. SourceIsHeld'
  BY <1>1, <1>5 DEF SourceIsHeld, Taken
<1>8. HeldWasMoved'
  BY <1>1, <1>3 DEF HeldWasMoved, None
<1>9. RootHolds' /\ BackIsDone'
  BY <1>1, <1>2 DEF RootHolds, BackIsDone
<1> QED
  BY <1>6, <1>7, <1>8, <1>9 DEF RunInv

\* A source is moved: nothing is at its place until another process writes.
LEMMA RunMoves ==
    ASSUME ArchiveAssumption, ArchiveInv, RunInv, MoveSource PROVE RunInv'
<1> DEFINE n == Order(prog)[moved + 1]
<1>1. /\ pc = "move" /\ moved \in Nat /\ moved + 1 \in 1..Len(Order(prog))
      /\ prog \in AllPrograms /\ source \in [Names -> Versions] /\ partial \in [Names -> Versions]
  BY TakenInOrder, OrderFacts DEF MoveSource, ArchiveInv, ArchiveSafety, TypeOK, StageShape
<1>2. n \in Taken(prog) /\ n \in Names
  BY <1>1, TakenInOrder
<1>3. /\ source[n] # 0 /\ source' = [source EXCEPT ![n] = 0] /\ partial' = [partial EXCEPT ![n] = source[n]]
      /\ moved' = moved + 1
      /\ UNCHANGED <<pc, prog, archive, staging, target, snap, root, back, hit, report, live>>
  BY DEF MoveSource
<1> HIDE DEF n
<1>4. /\ source'[n] = 0 /\ partial'[n] # 0
      /\ \A s \in Names : s # n => source'[s] = source[s] /\ partial'[s] = partial[s]
  BY <1>1, <1>2, <1>3
<1>5. SnapshotIsOlder'
  BY <1>3 DEF RunInv, SnapshotIsOlder, Taken
<1>6. SourceIsHeld'
  <2>1. \A s \in Taken(prog) : source'[s] # 0 \/ partial'[s] # 0 \/ archive[prog][s] # 0
    BY <1>1, <1>4, TakenInOrder DEF RunInv, SourceIsHeld
  <2> QED
    BY <1>3, <2>1 DEF SourceIsHeld, Taken
<1>7. HeldWasMoved'
  <2>1. ASSUME NEW s \in Names, partial'[s] # 0 \/ archive[prog][s] # 0
        PROVE  source'[s] # snap[s] /\ \E j \in 1..(moved + 1) : Order(prog)[j] = s
    <3>1. CASE s = n
      <4>1. snap[n] # 0
        BY <1>1, <1>2 DEF RunInv, SnapshotIsOlder
      <4> QED
        BY <1>1, <1>4, <3>1, <4>1 DEF n
    <3>2. CASE s # n
      <4>1. PICK j \in 1..moved : Order(prog)[j] = s
        BY <1>1, <1>4, <2>1, <3>2 DEF RunInv, HeldWasMoved
      <4>2. source'[s] # snap[s]
        BY <1>1, <1>4, <2>1, <3>2 DEF RunInv, HeldWasMoved
      <4>3. j \in 1..(moved + 1)
        BY <1>1
      <4> QED
        BY <4>1, <4>2, <4>3
    <3> QED
      BY <3>1, <3>2
  <2> QED
    BY <1>3, <2>1 DEF HeldWasMoved
<1>8. RootHolds' /\ BackIsDone'
  BY <1>1, <1>3 DEF RunInv, RootHolds, BackIsDone, Alone
<1> QED
  BY <1>5, <1>6, <1>7, <1>8 DEF RunInv

\* The staging directory becomes the archive.
LEMMA RunPublishes ==
    ASSUME ArchiveAssumption, ArchiveInv, RunInv, Publish PROVE RunInv'
<1>1. /\ pc = "publish" /\ pc' = "verify" /\ prog \in AllPrograms /\ archive \in [AllPrograms -> [Names -> Versions]]
      /\ archive' = [archive EXCEPT ![prog] = partial] /\ partial' = None /\ staging' = FALSE
      /\ target' = [target EXCEPT ![prog] = "ours"] /\ target \in [AllPrograms -> {"absent", "ours", "foreign"}]
      /\ UNCHANGED <<prog, source, snap, moved, root, back, hit, report, live>>
  BY DEF Publish, ArchiveInv, ArchiveSafety, TypeOK
<1>2. archive'[prog] = partial /\ archive[prog] = None /\ \A s \in Names : partial'[s] = 0 /\ archive[prog][s] = 0
  BY <1>1 DEF RunInv, RootHolds, ArchiveInv, TargetsHold, None
<1>3. SnapshotIsOlder'
  BY <1>1 DEF RunInv, SnapshotIsOlder, Taken
<1>4. SourceIsHeld'
  <2>1. \A s \in Taken(prog) : source[s] # 0 \/ archive'[prog][s] # 0
    BY <1>1, <1>2, TakenInOrder DEF RunInv, SourceIsHeld
  <2> QED
    BY <1>1, <2>1 DEF SourceIsHeld, Taken
<1>5. HeldWasMoved'
  <2>1. \A s \in Names : archive'[prog][s] # 0 => source[s] # snap[s] /\ \E j \in 1..moved : Order(prog)[j] = s
    BY <1>1, <1>2 DEF RunInv, HeldWasMoved
  <2>2. \A s \in Names : partial'[s] = 0
    BY <1>2
  <2> QED
    BY <1>1, <2>1, <2>2 DEF HeldWasMoved
<1>6. RootHolds' /\ BackIsDone'
  BY <1>1 DEF RootHolds, BackIsDone
<1> QED
  BY <1>3, <1>4, <1>5, <1>6 DEF RunInv

\* A failed run looks for what it moved where it is.
LEMMA RunFails ==
    ASSUME ArchiveAssumption, ArchiveInv, RunInv, Fail PROVE RunInv'
<1>1. /\ pc \in {"move", "publish", "verify"} /\ pc' = "rollback" /\ root' = RollbackRoot /\ back' = moved
      /\ prog \in AllPrograms /\ moved \in Nat
      /\ UNCHANGED <<prog, source, partial, archive, staging, target, snap, moved, hit, report, live>>
  BY TakenInOrder, OrderFacts DEF Fail, Disk, ArchiveInv, ArchiveSafety, TypeOK, StageShape
<1>2. SnapshotIsOlder' /\ SourceIsHeld' /\ HeldWasMoved'
  BY <1>1 DEF RunInv, SnapshotIsOlder, SourceIsHeld, HeldWasMoved, Taken
<1>3. RootHolds'
  <2>1. CASE pc \in {"move", "publish"}
    BY <1>1, <2>1 DEF RunInv, RootHolds, RollbackRoot, Alone
  <2>2. CASE pc = "verify"
    <3>1. ~staging /\ target[prog] = "ours" /\ partial = None
      BY <2>2 DEF RunInv, RootHolds, ArchiveInv, StageShape
    <3> QED
      BY <1>1, <3>1 DEF RootHolds, RollbackRoot, None
  <2> QED
    BY <1>1, <2>1, <2>2
<1>4. BackIsDone'
  <2>1. (moved + 1)..moved = {}
    BY <1>1
  <2> QED
    BY <1>1, <2>1 DEF BackIsDone
<1> QED
  BY <1>2, <1>3, <1>4 DEF RunInv

\* One source is put back, or stays where it is because something is at its place.
LEMMA RollbackEffect ==
    ASSUME ArchiveAssumption, ArchiveInv, RunInv, Rollback
    PROVE  /\ back \in 1..moved /\ back' = back - 1 /\ prog \in AllPrograms /\ moved \in Nat
           /\ source'[Order(prog)[back]] # 0 \/ Archived(Order(prog)[back]) = 0
           /\ \A n \in Names :
                \/ source'[n] = source[n] /\ partial'[n] = partial[n] /\ archive'[prog][n] = archive[prog][n]
                \/ /\ n = Order(prog)[back] /\ source'[n] # 0
                   /\ root = "part" => partial'[n] = 0 /\ archive'[prog][n] = archive[prog][n]
                   /\ root # "part" => partial'[n] = partial[n] /\ archive'[prog][n] = 0 /\ target[prog] = "ours"
<1> DEFINE s == Order(prog)[back]
<1>1. /\ back \in 1..moved /\ back' = back - 1 /\ prog \in AllPrograms /\ moved \in Nat
      /\ s \in Names
      /\ source \in [Names -> Versions] /\ partial \in [Names -> Versions]
      /\ archive \in [AllPrograms -> [Names -> Versions]]
  BY TakenInOrder, OrderFacts DEF Rollback, ArchiveInv, ArchiveSafety, TypeOK, StageShape
<1>2. IF Archived(s) = 0 \/ source[s] # 0 THEN UNCHANGED <<source, partial, archive>> ELSE PutBack(s)
  BY DEF Rollback
<1> HIDE DEF s
<1>3. CASE Archived(s) = 0 \/ source[s] # 0
  BY <1>1, <1>2, <1>3 DEF s
<1>4. CASE Archived(s) # 0 /\ source[s] = 0
  <2>1. source' = [source EXCEPT ![s] = Archived(s)]
    BY <1>2, <1>4 DEF PutBack
  <2>2. source'[s] # 0 /\ \A n \in Names : n # s => source'[n] = source[n]
    BY <1>1, <1>4, <2>1
  <2>3. CASE root = "part"
    <3>1. partial' = [partial EXCEPT ![s] = 0] /\ archive' = archive
      BY <1>2, <1>4, <2>3 DEF PutBack
    <3>2. partial'[s] = 0 /\ \A n \in Names : n # s => partial'[n] = partial[n]
      BY <1>1, <3>1
    <3> QED
      BY <1>1, <2>2, <2>3, <3>1, <3>2 DEF s
  <2>4. CASE root # "part"
    <3>1. archive' = [archive EXCEPT ![prog][s] = 0] /\ partial' = partial
      BY <1>2, <1>4, <2>4 DEF PutBack
    <3>2. archive'[prog][s] = 0 /\ \A n \in Names : n # s => archive'[prog][n] = archive[prog][n]
      BY <1>1, <3>1
    <3>3. target[prog] = "ours"
      BY <1>4, <2>4 DEF Archived
    <3> QED
      BY <1>1, <2>2, <2>4, <3>1, <3>2, <3>3 DEF s
  <2> QED
    BY <2>3, <2>4
<1> QED
  BY <1>3, <1>4

\* A step of the rollback.
LEMMA RunRollsBack ==
    ASSUME ArchiveAssumption, ArchiveInv, RunInv, Rollback PROVE RunInv'
<1>1. /\ pc = "rollback"
      /\ UNCHANGED <<pc, prog, staging, target, snap, moved, root, hit, report, live>>
  BY DEF Rollback
<1>2. /\ back \in 1..moved /\ back' = back - 1 /\ prog \in AllPrograms /\ moved \in Nat
      /\ source'[Order(prog)[back]] # 0 \/ Archived(Order(prog)[back]) = 0
  BY RollbackEffect
<1>3. ASSUME NEW n \in Names
      PROVE  \/ source'[n] = source[n] /\ partial'[n] = partial[n] /\ archive'[prog][n] = archive[prog][n]
             \/ n = Order(prog)[back] /\ source'[n] # 0 /\ partial'[n] = 0 /\ archive'[prog][n] = 0
  <2>1. root = "part" => archive[prog] = None
    BY <1>1, <1>2 DEF RunInv, RootHolds, ArchiveInv, TargetsHold
  <2>2. target[prog] = "ours" => partial = None
    BY <1>1 DEF RunInv, RootHolds
  <2> QED
    BY <2>1, <2>2, RollbackEffect DEF None
<1>4. SnapshotIsOlder'
  BY <1>1 DEF RunInv, SnapshotIsOlder, Taken
<1>5. SourceIsHeld'
  <2>1. \A n \in Taken(prog) : source'[n] # 0 \/ partial'[n] # 0 \/ archive'[prog][n] # 0
    BY <1>1, <1>2, <1>3, TakenInOrder DEF RunInv, SourceIsHeld
  <2> QED
    BY <1>1, <2>1 DEF SourceIsHeld, Taken
<1>6. HeldWasMoved'
  BY <1>1, <1>3 DEF RunInv, HeldWasMoved
<1>7. RootHolds'
  <2>1. partial = None => partial' = None
    <3>1. partial' \in [Names -> Versions]
      BY ArchiveStep DEF Next, ArchiveInv, ArchiveSafety, TypeOK
    <3> QED
      BY <1>3, <3>1 DEF None
  <2> QED
    BY <1>1, <2>1 DEF RunInv, RootHolds, Alone
<1>8. BackIsDone'
  <2>1. ASSUME NEW n \in Names, Archived(n) = 0 PROVE Archived(n)' = 0
    BY <1>1, <1>3, <2>1 DEF Archived
  <2>2. ASSUME NEW n \in Names, source[n] # 0 PROVE source'[n] # 0
    BY <1>3, <2>2
  <2>3. ASSUME ~hit, NEW j \in back..moved, NEW n, n = Order(prog)[j]
        PROVE  source'[n] # 0 \/ Archived(n)' = 0
    <3>1. n \in Names
      BY <1>2, <2>3, TakenInOrder DEF ArchiveInv, StageShape
    <3>2. CASE j = back
      BY <1>2, <2>1, <2>3, <3>1, <3>2
    <3>3. CASE j # back
      <4>1. j \in (back + 1)..moved
        BY <1>2, <3>3
      <4> QED
        BY <1>1, <2>1, <2>2, <2>3, <3>1, <4>1 DEF RunInv, BackIsDone
    <3> QED
      BY <3>2, <3>3
  <2> QED
    BY <1>1, <1>2, <2>3 DEF BackIsDone, Archived
<1> QED
  BY <1>4, <1>5, <1>6, <1>7, <1>8 DEF RunInv

\* Another process writes: what it writes is newer than any snapshot.
LEMMA RunIsWritten ==
    ASSUME ArchiveAssumption, ArchiveInv, RunInv, NEW s \in Names, Write(s) PROVE RunInv'
<1>1. /\ prog \in AllPrograms /\ source \in [Names -> Versions] /\ partial \in [Names -> Versions]
      /\ snap \in [Names -> Versions] /\ live \in [Names -> SUBSET Versions] /\ moved \in Nat
      /\ Versions \subseteq Nat /\ moved <= Len(Order(prog)) /\ Len(Order(prog)) \in Nat
      /\ UNCHANGED <<pc, prog, archive, staging, target, snap, moved, root, back, hit, report>>
  BY TakenInOrder, OrderFacts
     DEF Write, ArchiveInv, ArchiveSafety, TypeOK, StageShape, Versions, ArchiveAssumption
<1>2. PICK v \in 1..MaxVersion :
        /\ \A u \in live[s] : u < v
        /\ \/ /\ source' = [source EXCEPT ![s] = v]
              /\ live' = [live EXCEPT ![s] = (@ \ {source[s]}) \cup {v}]
              /\ UNCHANGED partial
           \/ /\ partial[s] # 0 /\ partial' = [partial EXCEPT ![s] = v]
              /\ live' = [live EXCEPT ![s] = (@ \ {partial[s]}) \cup {v}]
              /\ UNCHANGED source
  BY DEF Write
<1>3. v \in live'[s] /\ v # 0 /\ v \in Nat /\ \A n \in Names : n # s => live'[n] = live[n]
  BY <1>1, <1>2 DEF ArchiveAssumption
<1>4. ASSUME NEW n \in Names
      PROVE  \/ source'[n] = source[n] /\ (partial'[n] # 0 <=> partial[n] # 0)
             \/ n = s /\ source'[n] = v /\ partial'[n] = partial[n]
  BY <1>1, <1>2, <1>3
<1>5. SnapshotIsOlder'
  <2>1. ASSUME pc # "idle", NEW n \in Taken(prog) PROVE snap[n] # 0 /\ \E u \in live'[n] : snap[n] <= u
    <3>1. PICK u \in live[n] : snap[n] <= u
      BY <2>1 DEF RunInv, SnapshotIsOlder
    <3>2. snap[n] # 0 /\ n \in Names
      BY <1>1, <2>1, TakenInOrder DEF RunInv, SnapshotIsOlder
    <3>3. CASE n = s
      <4>1. snap[n] \in Nat /\ u \in Nat
        BY <1>1, <3>1, <3>2
      <4> QED
        BY <1>2, <1>3, <3>1, <3>2, <3>3, <4>1
    <3>4. CASE n # s
      BY <1>3, <3>1, <3>2, <3>4
    <3> QED
      BY <3>3, <3>4
  <2> QED
    BY <1>1, <2>1 DEF RunInv, SnapshotIsOlder, Taken
<1>6. SourceIsHeld'
  <2>1. ASSUME pc # "idle", NEW n \in Taken(prog)
        PROVE  source'[n] # 0 \/ partial'[n] # 0 \/ archive[prog][n] # 0
    BY <1>1, <1>3, <1>4, <2>1, TakenInOrder DEF RunInv, SourceIsHeld
  <2> QED
    BY <1>1, <2>1 DEF SourceIsHeld, Taken
<1>7. HeldWasMoved'
  <2>1. ASSUME pc # "idle", NEW n \in Names, partial'[n] # 0 \/ archive[prog][n] # 0
        PROVE  source'[n] # snap[n] /\ \E j \in 1..moved : Order(prog)[j] = n
    <3>1. partial[n] # 0 \/ archive[prog][n] # 0
      BY <1>4, <2>1
    <3>2. PICK j \in 1..moved : Order(prog)[j] = n
      BY <2>1, <3>1 DEF RunInv, HeldWasMoved
    <3>3. n \in Taken(prog)
      BY <1>1, <3>2, TakenInOrder
    <3>4. PICK u \in live[n] : snap[n] <= u
      BY <2>1, <3>3 DEF RunInv, SnapshotIsOlder
    <3>5. n = s => v # snap[n]
      BY <1>1, <1>2, <1>3, <3>4
    <3> QED
      BY <1>4, <2>1, <3>1, <3>2, <3>5 DEF RunInv, HeldWasMoved
  <2> QED
    BY <1>1, <2>1 DEF HeldWasMoved
<1>8. RootHolds'
  <2>1. partial = None => partial' = None
    BY <1>2 DEF None
  <2> QED
    BY <1>1, <2>1 DEF RunInv, RootHolds, Alone
<1>9. BackIsDone'
  <2> SUFFICES ASSUME pc = "rollback", ~hit, NEW j \in (back + 1)..moved
               PROVE  source'[Order(prog)[j]] # 0 \/ Archived(Order(prog)[j])' = 0
    BY <1>1 DEF BackIsDone, Archived
  <2>1. Order(prog)[j] \in Names
    <3>1. back \in Nat
      BY <1>1 DEF ArchiveInv, ArchiveSafety, TypeOK
    <3>2. j \in 1..Len(Order(prog))
      BY <1>1, <3>1
    <3> QED
      BY <1>1, <3>2, TakenInOrder
  <2>2. source[Order(prog)[j]] # 0 \/ Archived(Order(prog)[j]) = 0
    BY DEF RunInv, BackIsDone
  <2> QED
    BY <1>1, <1>3, <1>4, <2>1, <2>2 DEF Archived
<1> QED
  BY <1>5, <1>6, <1>7, <1>8, <1>9 DEF RunInv

\* Every step keeps what the rollback and its report rely on.
LEMMA RunStep ==
    ASSUME ArchiveAssumption, ArchiveInv, RunInv, [Next]_vars PROVE RunInv'
<1>1. ASSUME pc' = "idle" PROVE RunInv'
  BY <1>1 DEF RunInv, SnapshotIsOlder, SourceIsHeld, HeldWasMoved, RootHolds, BackIsDone
<1>2. (\E p \in Programs : Refuse(p)) \/ RecordIncident \/ Complete \/ ReportFailure \/ Crash => pc' = "idle"
  BY DEF Refuse, RecordIncident, Complete, ReportFailure, Crash
<1>3. CASE VerifyPart \/ UNCHANGED vars
  <2>1. /\ pc' = pc \/ (pc = "move" /\ pc' = "publish")
        /\ UNCHANGED <<prog, source, partial, archive, staging, target, snap, moved, root, back, hit, report, live>>
    BY <1>3 DEF VerifyPart, Disk, vars
  <2> QED
    BY <2>1 DEF RunInv, SnapshotIsOlder, SourceIsHeld, HeldWasMoved, RootHolds, BackIsDone, Alone, Archived, Taken
<1>4. CASE RollbackFails
  <2>1. pc = "rollback" /\ hit' = TRUE /\ UNCHANGED <<pc, prog, source, partial, archive, staging, target, snap, moved, root, report, live>>
    BY <1>4 DEF RollbackFails, Disk
  <2> QED
    BY <2>1 DEF RunInv, SnapshotIsOlder, SourceIsHeld, HeldWasMoved, RootHolds, BackIsDone, Alone, Taken
<1>5. ASSUME NEW p \in Programs, Intrude(p) PROVE RunInv'
  <2>1. /\ Intruder /\ target[p] = "absent" /\ target' = [target EXCEPT ![p] = "foreign"]
        /\ target \in [AllPrograms -> {"absent", "ours", "foreign"}] /\ prog \in AllPrograms /\ p \in AllPrograms
        /\ UNCHANGED <<pc, prog, source, partial, archive, staging, snap, moved, root, back, hit, report, live>>
    BY <1>5 DEF Intrude, ArchiveInv, ArchiveSafety, TypeOK, ArchiveAssumption
  <2>2. target'[prog] = "ours" <=> target[prog] = "ours"
    BY <2>1
  <2>3. SnapshotIsOlder' /\ SourceIsHeld' /\ HeldWasMoved'
    BY <2>1 DEF RunInv, SnapshotIsOlder, SourceIsHeld, HeldWasMoved, Taken
  <2>4. RootHolds' /\ BackIsDone'
    BY <2>1, <2>2 DEF RunInv, RootHolds, BackIsDone, Alone, Archived
  <2> QED
    BY <2>3, <2>4 DEF RunInv
<1> QED
  BY <1>1, <1>2, <1>3, <1>4, <1>5, RunBegins, RunMoves, RunPublishes, RunFails, RunRollsBack, RunIsWritten DEF Next

\* No step says restored without cause.
LEMMA RestoredStep ==
    ASSUME ArchiveAssumption, SnapshotIsOlder, [Next]_vars PROVE RestoredIsTrue
<1>1. ASSUME NEW p \in Programs, Refuse(p) PROVE RestoredIsTrue
  <2>1. prog' = p /\ source' = source /\ ~report'.attempted /\ report'.restored = (p = "rebuild" /\ Present(Taken(p)))
    BY <1>1 DEF Refuse, Disk, NoReport
  <2> QED
    BY <2>1 DEF RestoredIsTrue, Present, Taken
<1>2. CASE ReportFailure
  <2>1. /\ pc = "rollback" /\ UNCHANGED <<prog, source, snap>>
        /\ report'.attempted = (moved > 0)
        /\ report'.restored => IF moved > 0 THEN \A s \in Taken(prog) : source[s] = snap[s]
                               ELSE Present(Taken(prog))
    BY <1>2 DEF ReportFailure
  <2>2. \A s \in Taken(prog) : snap[s] # 0
    BY <2>1 DEF SnapshotIsOlder
  <2>3. Taken(prog') = Taken(prog)
    BY <2>1
  <2> QED
    BY <2>1, <2>2, <2>3 DEF RestoredIsTrue, Present
<1>3. ASSUME ~report'.restored \/ report' = report PROVE RestoredIsTrue
  BY <1>3 DEF RestoredIsTrue
<1>4. (\E p \in Programs : Begin(p)) \/ Complete \/ Crash => ~report'.restored
  <2>1. ~NoReport.restored /\ ~[NoReport EXCEPT !.done = TRUE, !.completed = TRUE].restored
    BY DEF NoReport
  <2>2. ASSUME NEW p \in Programs, Begin(p) PROVE ~report'.restored
    BY <2>1, <2>2 DEF Begin
  <2>3. CASE Complete
    BY <2>1, <2>3 DEF Complete
  <2>4. CASE Crash
    BY <2>1, <2>4 DEF Crash
  <2> QED
    BY <2>2, <2>3, <2>4
<1>5. \/ (\E p \in Programs : Intrude(p)) \/ RecordIncident \/ MoveSource \/ VerifyPart \/ Publish \/ Fail
      \/ Rollback \/ RollbackFails \/ (\E s \in Names : Write(s)) \/ UNCHANGED vars
      => report' = report
  BY DEF Intrude, RecordIncident, MoveSource, VerifyPart, Publish, Fail, Rollback, RollbackFails, Write, vars
<1> QED
  BY <1>1, <1>2, <1>3, <1>4, <1>5 DEF Next

\* A failed run of transactional_archive says so when anything it moved is left outside its
\* place: in its staging directory, or in an archive it published.
LEMMA LeftoverStep ==
    ASSUME ArchiveAssumption, ArchiveInv, RunInv, [Next]_vars PROVE LeftoverIsReported
<1> SUFFICES ASSUME pc = "rollback", prog = "rebuild", report'.done,
                    NEW s \in Names, partial[s] # 0 \/ archive[prog][s] # 0
             PROVE  report'.preserved
  BY DEF LeftoverIsReported
<1>1. ~report.done
  BY DEF RunInv, SnapshotIsOlder
<1>2. ReportFailure
  <2>1. \/ RecordIncident \/ MoveSource \/ VerifyPart \/ Publish \/ Complete \/ Fail \/ Rollback \/ RollbackFails
        \/ (\E p \in Programs : Refuse(p) \/ Begin(p) \/ Intrude(p)) \/ (\E n \in Names : Write(n)) \/ UNCHANGED vars
        => report' = report
    BY DEF RecordIncident, MoveSource, VerifyPart, Publish, Complete, Fail, Rollback, RollbackFails, Refuse, Begin,
           Intrude, Write, vars
  <2>2. ~NoReport.done
    BY DEF NoReport
  <2> QED
    BY <1>1, <2>1, <2>2 DEF Next, Crash
<1>3. report'.preserved <=>
        staging \/ (target[prog] # "absent" /\ ~(~hit /\ moved > 0 /\ \A n \in Taken(prog) : source[n] = snap[n]))
  BY <1>2 DEF ReportFailure
<1>4. CASE ~staging
  <2>1. target[prog] = "ours"
    BY <1>4 DEF RunInv, RootHolds
  <2>2. source[s] # snap[s] /\ \E j \in 1..moved : Order(prog)[j] = s
    BY DEF RunInv, HeldWasMoved
  <2>3. s \in Taken(prog)
    BY <2>2, TakenInOrder, OrderFacts DEF ArchiveInv, ArchiveSafety, TypeOK, StageShape
  <2> QED
    BY <1>3, <2>1, <2>2, <2>3
<1> QED
  BY <1>3, <1>4

\* A failed run in which no rename of the rollback failed, and whose sources nobody wrote to,
\* leaves every source at its place.
LEMMA RestoringStep ==
    ASSUME ArchiveAssumption, ArchiveInv, RunInv, [Next]_vars, Alone PROVE RollbackRestores
<1> SUFFICES ASSUME pc = "rollback", report'.done, ~hit, NEW s \in Taken(prog), live[s] = {1}
             PROVE  source'[s] = snap[s]
  BY DEF RollbackRestores
<1>1. ~report.done /\ prog \in AllPrograms /\ s \in Names /\ snap[s] \in Nat
  BY TakenInOrder DEF RunInv, SnapshotIsOlder, ArchiveInv, ArchiveSafety, TypeOK, Versions, ArchiveAssumption
<1>2. ReportFailure
  <2>1. \/ RecordIncident \/ MoveSource \/ VerifyPart \/ Publish \/ Complete \/ Fail \/ Rollback \/ RollbackFails
        \/ (\E p \in Programs : Refuse(p) \/ Begin(p) \/ Intrude(p)) \/ (\E n \in Names : Write(n)) \/ UNCHANGED vars
        => report' = report
    BY DEF RecordIncident, MoveSource, VerifyPart, Publish, Complete, Fail, Rollback, RollbackFails, Refuse, Begin,
           Intrude, Write, vars
  <2>2. ~NoReport.done
    BY DEF NoReport
  <2> QED
    BY <1>1, <2>1, <2>2 DEF Next, Crash
<1>3. back = 0 /\ source' = source
  BY <1>2 DEF ReportFailure
<1>4. snap[s] = 1
  BY <1>1 DEF RunInv, SnapshotIsOlder
<1>5. source[s] # 0
  <2> SUFFICES ASSUME source[s] = 0 PROVE FALSE
    OBVIOUS
  <2>1. partial[s] # 0 \/ archive[prog][s] # 0
    BY DEF RunInv, SourceIsHeld
  <2>2. PICK j \in 1..moved : Order(prog)[j] = s
    BY <1>1, <2>1 DEF RunInv, HeldWasMoved
  <2>3. Archived(s) # 0
    <3>1. CASE staging
      <4>1. root = "part" /\ target[prog] # "ours"
        BY <3>1 DEF RunInv, RootHolds
      <4>2. archive[prog][s] = 0
        BY <1>1, <4>1 DEF ArchiveInv, TargetsHold, None
      <4> QED
        BY <2>1, <4>1, <4>2 DEF Archived
    <3>2. CASE ~staging
      <4>1. root = "archive" /\ target[prog] = "ours" /\ partial = None
        BY <3>2 DEF RunInv, RootHolds
      <4>2. partial[s] = 0
        BY <1>1, <4>1 DEF None
      <4> QED
        BY <2>1, <4>1, <4>2 DEF Archived
    <3> QED
      BY <3>1, <3>2
  <2>4. j \in (back + 1)..moved
    BY <1>3
  <2> QED
    BY <2>2, <2>3, <2>4 DEF RunInv, BackIsDone
<1>6. source[s] \in live[s]
  BY <1>1, <1>5 DEF ArchiveInv, ContentsAreLive
<1> QED
  BY <1>3, <1>4, <1>6

\* The invariant of the runs, from the first state on.
LEMMA RunInitially == Init => RunInv
  BY DEF Init, RunInv, SnapshotIsOlder, SourceIsHeld, HeldWasMoved, RootHolds, BackIsDone

\* A failed run that says its sources are restored had every one of them back, with the content
\* of its snapshot if any had been moved.
THEOREM RestoredTrue == ASSUME ArchiveAssumption PROVE Spec => [][RestoredIsTrue]_vars
<1>1. Init => ArchiveInv /\ RunInv
  BY ArchiveInitially, RunInitially
<1>2. ArchiveInv /\ RunInv /\ [Next]_vars => (ArchiveInv /\ RunInv)'
  BY ArchiveStep, RunStep
<1>3. ArchiveInv /\ RunInv /\ [Next]_vars => [RestoredIsTrue]_vars
  BY RestoredStep DEF RunInv
<1> QED
  BY <1>1, <1>2, <1>3, PTL DEF Spec

\* For any number of runs, of writes by other processes and of crashes: a failed run of
\* transactional_archive that leaves anything it moved outside its place reports that leftovers
\* are preserved.
THEOREM LeftoverReported == ASSUME ArchiveAssumption PROVE Spec => [][LeftoverIsReported]_vars
<1>1. Init => ArchiveInv /\ RunInv
  BY ArchiveInitially, RunInitially
<1>2. ArchiveInv /\ RunInv /\ [Next]_vars => (ArchiveInv /\ RunInv)'
  BY ArchiveStep, RunStep
<1>3. ArchiveInv /\ RunInv /\ [Next]_vars => [LeftoverIsReported]_vars
  BY LeftoverStep
<1> QED
  BY <1>1, <1>2, <1>3, PTL DEF Spec

\* A failed run whose renames back all succeeded, and whose sources nobody wrote to, put every
\* source back, unless the archiver is one that looks at its target and another process can
\* create that target.
THEOREM RollbackRestored == ASSUME ArchiveAssumption PROVE Spec => [][Alone => RollbackRestores]_vars
<1>1. Init => ArchiveInv /\ RunInv
  BY ArchiveInitially, RunInitially
<1>2. ArchiveInv /\ RunInv /\ [Next]_vars => (ArchiveInv /\ RunInv)'
  BY ArchiveStep, RunStep
<1>3. ArchiveInv /\ RunInv /\ [Next]_vars => [Alone => RollbackRestores]_vars
  BY RestoringStep
<1> QED
  BY <1>1, <1>2, <1>3, PTL DEF Spec

-----------------------------------------------------------------------------
(* The controlled runs: the inductive invariant.                           *)

RunRecord ==
    [started : BOOLEAN, timedOut : BOOLEAN, remaining : BOOLEAN, limitHit : BOOLEAN, rootSeen : BOOLEAN,
     exitOk : BOOLEAN, childSeen : BOOLEAN, outcome : {"none", "refused", "success", "failure"}]

TreeRecord ==
    [root : {"none", "suspended", "running", "exited"}, inJob : BOOLEAN, kids : Nat, total : Nat,
     limitMsg : BOOLEAN, exitOk : BOOLEAN, job : BOOLEAN, killed : BOOLEAN]

HarnessTyped ==
    /\ HarnessTypeOK
    /\ run \in [Harnesses -> RunRecord] /\ tree \in [Harnesses -> TreeRecord]
    /\ starts \in [Harnesses -> Nat]
    /\ resumed \subseteq Harnesses \X Nat /\ cut \subseteq Harnesses \X Nat

\* A harness that has made the first marker: before the program is resumed,
\* and after that was tried.
Marked == {"mark2", "mark3", "job", "create", "assign", "resume"}
Holding == Marked \cup {"wait", "account", "terminate", "collect", "finally", "judge", "report"}

\* The first marker lets one harness through, once.
OneAttempt ==
    /\ \A h \in Harnesses : at[h] \in Holding => Markers[1] \in disk
    /\ \A g, h \in Harnesses : at[g] \in Holding /\ at[h] \in Holding => g = h
    /\ \A h \in Harnesses : at[h] \in Marked => resumed = {}
    /\ resumed # {} => Markers[1] \in disk
    /\ \A a, b \in resumed : a = b

\* The tree of a harness that has not come to each call.
TreeSoFar(h) ==
    /\ at[h] \in {"idle", "mark1", "mark2", "mark3", "job", "create"} =>
         /\ tree[h].root = "none" /\ ~tree[h].inJob /\ tree[h].kids = 0
         /\ ~tree[h].limitMsg /\ ~tree[h].killed
    /\ at[h] = "assign" => /\ tree[h].root = "suspended" /\ ~tree[h].inJob /\ tree[h].kids = 0
                           /\ ~tree[h].limitMsg /\ ~tree[h].killed
    /\ at[h] = "resume" => /\ tree[h].root = "suspended" /\ tree[h].inJob /\ tree[h].kids = 0 /\ ~tree[h].killed
    /\ at[h] \in {"wait", "account", "terminate", "collect"} =>
         tree[h].root \in {"running", "exited"} /\ tree[h].inJob
    /\ at[h] \in {"create", "assign", "resume", "wait", "account", "terminate", "collect"} => tree[h].job
    /\ at[h] \in {"judge", "report"} => ~tree[h].job

\* What executes was resumed inside its job; a limit of one leaves no room for
\* a second process.
TreeInJob(h) ==
    /\ Executing(h) => /\ tree[h].inJob /\ <<h, starts[h]>> \in resumed
                       /\ tree[h].killed \/ (Busy(h) /\ tree[h].job)
    /\ tree[h].kids > 0 => tree[h].inJob
    /\ Limit(kind) = 1 => tree[h].kids = 0 /\ (tree[h].inJob => tree[h].total = 1)

\* The locals of a harness, and what they say of the tree.
RunSoFar(h) ==
    /\ Busy(h) /\ at[h] # "report" => run[h].outcome = "none"
    /\ at[h] \in Marked \cup {"mark1"} => run[h] = NoRun
    /\ run[h].started => tree[h].inJob /\ <<h, starts[h]>> \in resumed
    /\ kind = "smoke" => ~run[h].limitHit
    /\ at[h] \in {"wait", "account", "terminate", "collect"} => ~run[h].remaining
    /\ at[h] = "terminate" => run[h].timedOut \/ run[h].limitHit
    /\ at[h] = "account" => kind = "build"
    /\ at[h] = "collect" /\ kind = "smoke" => run[h].timedOut \/ tree[h].root = "exited"

\* A tree that the accounting, or the end of the root, showed to be over.
Undisturbed(h) == ~run[h].timedOut /\ ~run[h].limitHit /\ ~run[h].remaining

Over(h) ==
    /\ at[h] \in {"finally", "judge"} /\ Undisturbed(h) =>
         /\ ~Executing(h)
         /\ run[h].started => tree[h].root = "exited"
         /\ run[h].started /\ run[h].exitOk => tree[h].exitOk
         /\ kind = "smoke" /\ run[h].started /\ ~run[h].childSeen => ~tree[h].limitMsg
    /\ <<h, starts[h]>> \in cut => at[h] = "dead" \/ ~Undisturbed(h)

\* No later start is in the ghosts.
GhostsKnown == \A h \in Harnesses, n \in Nat : <<h, n>> \in cut => n <= starts[h]

\* What makes a success sound, and keeps it so while others go on.
Stands(h) ==
    run[h].outcome = "success" =>
        /\ run[h].started /\ tree[h].root = "exited" /\ ~Executing(h) /\ <<h, starts[h]>> \notin cut
        /\ kind = "build" => tree[h].exitOk /\ product.final = product.raw
        /\ kind = "smoke" => product.raw = "whole" /\ tree[h].total = 1 /\ ~tree[h].limitMsg

HarnessLocal(h) == TreeSoFar(h) /\ TreeInJob(h) /\ RunSoFar(h) /\ Over(h) /\ Stands(h)

HarnessInv == HarnessTyped /\ OneAttempt /\ GhostsKnown /\ \A h \in Harnesses : HarnessLocal(h)

-----------------------------------------------------------------------------
(* The controlled runs: what one step may do.                              *)

\* The bounds of HarnessTypeOK on one tree.
TreeBounded(h) ==
    RootActive(h) + tree[h].kids <= Limit(kind) /\ tree[h].total <= MaxTotal /\ starts[h] <= MaxStarts

\* The types of one harness's state.
LEMMA HarnessTypes ==
  ASSUME HarnessInv, NEW h \in Harnesses
  PROVE  /\ at[h] \in Labels /\ run[h] \in RunRecord /\ tree[h] \in TreeRecord /\ starts[h] \in Nat
         /\ TreeBounded(h) /\ HarnessLocal(h)
         /\ disk \subseteq Files /\ cache \in BOOLEAN
         /\ resumed \subseteq Harnesses \X Nat /\ cut \subseteq Harnesses \X Nat
BY DEF HarnessInv, HarnessTyped, HarnessTypeOK, TreeBounded

\* The two kinds and their limits.
LEMMA KindFields ==
  ASSUME ControlledRunAssumption, kind \in Kinds
  PROVE  kind \in {"smoke", "build"} /\ Limit(kind) \in Nat \ {0} /\ (kind = "smoke" => Limit(kind) = 1)
BY DEF ControlledRunAssumption, Limit

\* The kind and the limit in every reachable state.
LEMMA LimitFields ==
  ASSUME ControlledRunAssumption, HarnessInv
  PROVE  kind \in {"smoke", "build"} /\ Limit(kind) \in Nat \ {0} /\ (kind = "smoke" => Limit(kind) = 1)
BY KindFields DEF HarnessInv, HarnessTyped, HarnessTypeOK

\* A harness that does not step keeps its part of the invariant.
LEMMA OthersKeep ==
  ASSUME NEW g \in Harnesses, HarnessLocal(g),
         at'[g] = at[g], run'[g] = run[g], tree'[g] = tree[g], starts'[g] = starts[g],
         resumed \subseteq resumed', <<g, starts[g]>> \in cut' => <<g, starts[g]>> \in cut,
         run[g].outcome = "success" => product' = product, kind' = kind
  PROVE  HarnessLocal(g)'
<1>1. Executing(g)' = Executing(g) /\ Busy(g)' = Busy(g) /\ Undisturbed(g)' = Undisturbed(g)
  BY DEF Executing, Busy, Undisturbed
<1>2. TreeSoFar(g)'
  BY DEF HarnessLocal, TreeSoFar
<1>3. TreeInJob(g)'
  BY <1>1 DEF HarnessLocal, TreeInJob
<1>4. RunSoFar(g)'
  BY <1>1 DEF HarnessLocal, RunSoFar
<1>5. Over(g)'
  BY <1>1 DEF HarnessLocal, Over
<1>6. Stands(g)'
  BY <1>1 DEF HarnessLocal, Stands
<1> QED BY <1>2, <1>3, <1>4, <1>5, <1>6 DEF HarnessLocal

\* The step of one harness: it passes the first marker only by creating it,
\* is resumed only at its place, and keeps its own part of the invariant.
LEMMA StepKeeps ==
  ASSUME HarnessInv, NEW h \in Harnesses,
         at' \in [Harnesses -> Labels], run' \in [Harnesses -> RunRecord],
         tree' \in [Harnesses -> TreeRecord], starts' \in [Harnesses -> Nat],
         \A g \in Harnesses : g # h => /\ at'[g] = at[g] /\ run'[g] = run[g]
                                       /\ tree'[g] = tree[g] /\ starts'[g] = starts[g],
         starts[h] <= starts'[h], TreeBounded(h)', HarnessLocal(h)',
         disk \subseteq disk', disk' \subseteq Files, UNCHANGED <<kind, product, cache>>,
         cut' \subseteq cut \cup {<<h, starts[h]>>},
         \/ resumed' = resumed
         \/ at[h] = "resume" /\ at'[h] = "wait" /\ resumed' = resumed \cup {<<h, starts[h]>>},
         at'[h] \in Holding => at[h] \in Holding \/ (Markers[1] \notin disk /\ Markers[1] \in disk'),
         at'[h] \in Marked => at[h] \in Marked \/ Markers[1] \notin disk
  PROVE  HarnessInv'
<1>1. HarnessTyped /\ OneAttempt /\ GhostsKnown /\ \A g \in Harnesses : HarnessLocal(g)
  BY DEF HarnessInv
<1>2. /\ starts \in [Harnesses -> Nat] /\ run \in [Harnesses -> RunRecord] /\ tree \in [Harnesses -> TreeRecord]
      /\ resumed \subseteq Harnesses \X Nat /\ cut \subseteq Harnesses \X Nat
  BY <1>1 DEF HarnessTyped
<1>3. HarnessTyped'
  <2>1. \A g \in Harnesses : TreeBounded(g)'
    <3> SUFFICES ASSUME NEW g \in Harnesses PROVE TreeBounded(g)'
      OBVIOUS
    <3>1. CASE g = h
      BY <3>1
    <3>2. CASE g # h
      BY <3>2, HarnessTypes DEF TreeBounded, RootActive
    <3> QED BY <3>1, <3>2
  <2>2. \A g \in Harnesses : /\ tree'[g].root \in {"none", "suspended", "running", "exited"}
                             /\ run'[g].outcome \in {"none", "refused", "success", "failure"}
    BY DEF RunRecord, TreeRecord
  <2>3. product' \in [{"raw", "final"} -> {"none", "part", "whole"}] /\ cache' \in BOOLEAN /\ kind' \in Kinds
    BY <1>1 DEF HarnessTyped, HarnessTypeOK
  <2>4. HarnessTypeOK'
    BY <2>1, <2>2, <2>3 DEF HarnessTypeOK, TreeBounded
  <2>5. resumed' \subseteq Harnesses \X Nat /\ cut' \subseteq Harnesses \X Nat
    <3>1. <<h, starts[h]>> \in Harnesses \X Nat
      BY <1>2
    <3> QED BY <1>2, <3>1
  <2> QED BY <2>4, <2>5 DEF HarnessTyped
<1>4. OneAttempt'
  <2>1. Markers' = Markers
    BY DEF Markers, SmokeMarkers, BuildMarkers
  <2>2. at'[h] = "wait" => at'[h] \notin Marked
    BY DEF Marked
  <2>3. at[h] = "resume" => at[h] \in Marked /\ at[h] \in Holding
    BY DEF Marked, Holding
  <2>4. \A g \in Harnesses : at'[g] \in Marked => at'[g] \in Holding
    BY DEF Holding
  <2>5. \A g \in Harnesses : at'[g] \in Holding => Markers[1] \in disk'
    BY <1>1 DEF OneAttempt
  <2>6. \A f, g \in Harnesses : at'[f] \in Holding /\ at'[g] \in Holding => f = g
    BY <1>1 DEF OneAttempt
  <2>7. \A g \in Harnesses : at'[g] \in Marked => resumed' = {}
    <3> SUFFICES ASSUME NEW g \in Harnesses, at'[g] \in Marked PROVE resumed' = {}
      OBVIOUS
    <3>1. CASE g = h
      BY <1>1, <2>2, <3>1 DEF OneAttempt
    <3>2. CASE g # h
      BY <1>1, <2>3, <2>4, <3>2 DEF OneAttempt, Holding
    <3> QED BY <3>1, <3>2
  <2>8. resumed' # {} => Markers[1] \in disk'
    BY <1>1, <2>3 DEF OneAttempt
  <2>9. \A a, b \in resumed' : a = b
    BY <1>1, <2>3 DEF OneAttempt
  <2> QED BY <2>1, <2>5, <2>6, <2>7, <2>8, <2>9 DEF OneAttempt
<1>5. GhostsKnown'
  <2> SUFFICES ASSUME NEW g \in Harnesses, NEW n \in Nat, <<g, n>> \in cut' PROVE n <= starts'[g]
    BY DEF GhostsKnown
  <2>1. CASE <<g, n>> \in cut
    BY <1>1, <1>2, <2>1 DEF GhostsKnown
  <2>2. CASE <<g, n>> = <<h, starts[h]>>
    BY <1>2, <2>2
  <2> QED BY <2>1, <2>2
<1>6. \A g \in Harnesses : HarnessLocal(g)'
  <2> SUFFICES ASSUME NEW g \in Harnesses, g # h PROVE HarnessLocal(g)'
    OBVIOUS
  <2>1. <<g, starts[g]>> # <<h, starts[h]>>
    OBVIOUS
  <2>2. resumed \subseteq resumed'
    OBVIOUS
  <2> QED BY <1>1, <2>1, <2>2, OthersKeep
<1> QED BY <1>3, <1>4, <1>5, <1>6 DEF HarnessInv

-----------------------------------------------------------------------------
(* The controlled runs: the steps of a harness.                            *)

\* A harness writes its own place, locals and tree.
LEMMA HarnessMoves ==
  ASSUME HarnessInv, NEW h \in Harnesses, NEW l \in Labels, NEW r \in RunRecord, NEW t \in TreeRecord,
         (at' = at /\ l = at[h]) \/ Goto(h, l),
         (run' = run /\ r = run[h]) \/ SetRun(h, r),
         (tree' = tree /\ t = tree[h]) \/ SetTree(h, t)
  PROVE  /\ at' \in [Harnesses -> Labels] /\ run' \in [Harnesses -> RunRecord] /\ tree' \in [Harnesses -> TreeRecord]
         /\ at'[h] = l /\ run'[h] = r /\ tree'[h] = t
         /\ \A g \in Harnesses : g # h => at'[g] = at[g] /\ run'[g] = run[g] /\ tree'[g] = tree[g]
<1>1. /\ at \in [Harnesses -> Labels] /\ run \in [Harnesses -> RunRecord]
      /\ tree \in [Harnesses -> TreeRecord]
  BY DEF HarnessInv, HarnessTyped, HarnessTypeOK
<1> QED BY <1>1 DEF Goto, SetRun, SetTree

\* The records a harness starts from.
LEMMA EmptyRecords == NoRun \in RunRecord /\ NoTree \in TreeRecord
BY DEF NoRun, NoTree, RunRecord, TreeRecord

\* The two lists of markers.
LEMMA MarkersFields ==
  ASSUME ControlledRunAssumption, HarnessInv
  PROVE  /\ kind = "smoke" => Len(Markers) = 2 /\ Markers[1] = "dwp" /\ Markers[2] = "guard"
         /\ kind = "build" => Len(Markers) = 3 /\ Markers[1] = "directory" /\ Markers[2] = "guard" /\ Markers[3] = "spec"
         /\ \A k \in 1..Len(Markers) : Markers[k] \in Files /\ (Markers[k] = Markers[1] => k = 1)
<1>1. CASE kind = "smoke"
  BY <1>1 DEF Markers, SmokeMarkers, Files
<1>2. CASE kind = "build"
  BY <1>2 DEF Markers, BuildMarkers, Files
<1> QED BY <1>1, <1>2, LimitFields

\* A new start has forgotten the earlier one.
LEMMA HarnessBeginKeeps ==
  ASSUME ControlledRunAssumption, HarnessInv, NEW h \in Harnesses, NEW occupied \in BOOLEAN, BeginHarness(h, occupied)
  PROVE  HarnessInv'
<1>1. PICK l \in {"mark1", "done"}, r \in {NoRun, [NoRun EXCEPT !.outcome = "refused"]} :
         Goto(h, l) /\ SetRun(h, r) /\ (l = "mark1" => r = NoRun)
  BY DEF BeginHarness
<1>2. l \in Labels /\ r \in RunRecord /\ NoTree \in TreeRecord
  BY <1>1, EmptyRecords DEF Labels, NoRun, RunRecord
<1>3. /\ SetTree(h, NoTree) /\ starts' = [starts EXCEPT ![h] = starts[h] + 1] /\ starts[h] < MaxStarts
      /\ UNCHANGED <<kind, disk, product, cache, resumed, cut>>
  BY DEF BeginHarness, SetTree
<1>4. /\ at' \in [Harnesses -> Labels] /\ run' \in [Harnesses -> RunRecord] /\ tree' \in [Harnesses -> TreeRecord]
      /\ at'[h] = l /\ run'[h] = r /\ tree'[h] = NoTree
      /\ \A g \in Harnesses : g # h => at'[g] = at[g] /\ run'[g] = run[g] /\ tree'[g] = tree[g]
  BY <1>1, <1>2, <1>3, HarnessMoves
<1>5. /\ starts' \in [Harnesses -> Nat] /\ starts'[h] = starts[h] + 1 /\ starts[h] \in Nat /\ starts'[h] <= MaxStarts
      /\ \A g \in Harnesses : g # h => starts'[g] = starts[g]
  <2>1. starts \in [Harnesses -> Nat]
    BY DEF HarnessInv, HarnessTyped
  <2> QED BY <1>3, <2>1 DEF ControlledRunAssumption
<1>6. TreeBounded(h)'
  BY <1>3, <1>4, <1>5, LimitFields DEF TreeBounded, RootActive, NoTree, ControlledRunAssumption
<1>7. <<h, starts'[h]>> \notin cut'
  BY <1>3, <1>5 DEF HarnessInv, GhostsKnown
<1>8. HarnessLocal(h)'
  BY <1>1, <1>4, <1>7 DEF HarnessLocal, TreeSoFar, TreeInJob, RunSoFar, Over, Stands, Executing, Busy, NoTree,
     NoRun, Marked
<1>9. at'[h] \notin Holding /\ at'[h] \notin Marked
  BY <1>1, <1>4 DEF Holding, Marked
<1>10. disk' \subseteq Files /\ disk \subseteq disk' /\ starts[h] <= starts'[h]
  BY <1>3, <1>5, HarnessTypes
<1> QED BY <1>3, <1>4, <1>5, <1>6, <1>8, <1>9, <1>10, StepKeeps

\* The exclusive marker.
LEMMA MarkKeeps ==
  ASSUME ControlledRunAssumption, HarnessInv, NEW h \in Harnesses, NEW k \in 1..Len(Markers), Mark(h, k)
  PROVE  HarnessInv'
<1>1. PICK l \in {"mark2", "mark3", "job", "done"} :
         /\ Goto(h, l)
         /\ l = "done" => SetRun(h, [run[h] EXCEPT !.outcome = "refused"])
         /\ l # "done" => run' = run /\ Creates(Markers[k]) /\ disk' = disk \cup {Markers[k]}
  BY DEF Mark, Refused
<1>2. /\ at[h] = (IF k = 1 THEN "mark1" ELSE IF k = 2 THEN "mark2" ELSE "mark3")
      /\ disk' = disk \/ disk' = disk \cup {Markers[k]}
      /\ UNCHANGED <<kind, product, cache, tree, starts, resumed, cut>>
  BY DEF Mark
<1> DEFINE r == IF l = "done" THEN [run[h] EXCEPT !.outcome = "refused"] ELSE run[h]
<1>3. /\ at[h] \in {"mark1", "mark2", "mark3"} /\ run[h] = NoRun /\ run[h] \in RunRecord /\ tree[h] \in TreeRecord
      /\ starts \in [Harnesses -> Nat] /\ HarnessLocal(h) /\ TreeBounded(h)
  BY <1>2, HarnessTypes DEF HarnessLocal, RunSoFar, Marked, HarnessInv, HarnessTyped
<1>4. l \in Labels /\ r \in RunRecord
  BY <1>1, <1>3 DEF Labels, RunRecord
<1>5. /\ at' \in [Harnesses -> Labels] /\ run' \in [Harnesses -> RunRecord] /\ tree' \in [Harnesses -> TreeRecord]
      /\ at'[h] = l /\ run'[h] = r /\ tree'[h] = tree[h]
      /\ \A g \in Harnesses : g # h => at'[g] = at[g] /\ run'[g] = run[g] /\ tree'[g] = tree[g]
  BY <1>1, <1>2, <1>3, <1>4, HarnessMoves
<1>6. TreeBounded(h)'
  BY <1>2, <1>3, <1>5 DEF TreeBounded, RootActive
<1>7. HarnessLocal(h)'
  <2>1. r.started = FALSE /\ ~r.limitHit /\ r.outcome \in {"none", "refused"} /\ (l # "done" => r = NoRun)
        /\ ~r.timedOut /\ ~r.remaining /\ r.exitOk = FALSE
    BY <1>3 DEF NoRun
  <2>2. <<h, starts[h]>> \notin cut
    BY <1>3 DEF HarnessLocal, Over, Undisturbed, NoRun
  <2>3. r.outcome = "none" \/ l = "done"
    BY <1>3 DEF NoRun
  <2> HIDE DEF r
  <2>4. TreeSoFar(h)' /\ TreeInJob(h)'
    BY <1>1, <1>2, <1>3, <1>5 DEF HarnessLocal, TreeSoFar, TreeInJob, Executing, Busy
  <2>5. RunSoFar(h)'
    BY <1>1, <1>5, <2>1, <2>3 DEF RunSoFar, Busy, Marked
  <2>6. Over(h)' /\ Stands(h)'
    BY <1>1, <1>2, <1>5, <2>1, <2>2 DEF Over, Stands
  <2> QED BY <2>4, <2>5, <2>6 DEF HarnessLocal
<1>8. at'[h] \in Marked => at[h] \in Marked \/ Markers[1] \notin disk
  BY <1>1, <1>2, <1>5 DEF Marked, Creates
<1>9. at'[h] \in Holding => at[h] \in Holding \/ (Markers[1] \notin disk /\ Markers[1] \in disk')
  BY <1>1, <1>2, <1>5 DEF Holding, Marked, Creates
<1>10. disk' \subseteq Files /\ disk \subseteq disk'
  BY <1>2, HarnessTypes, MarkersFields
<1>11. starts' \in [Harnesses -> Nat] /\ starts[h] <= starts'[h]
  BY <1>2, <1>3
<1> QED BY <1>2, <1>5, <1>6, <1>7, <1>8, <1>9, <1>10, <1>11, StepKeeps

\* A step that starts, resumes and marks nothing keeps the invariant when it
\* keeps the harness's own part of it.
LEMMA QuietKeeps ==
  ASSUME HarnessInv, NEW h \in Harnesses, NEW l \in Labels, NEW r \in RunRecord, NEW t \in TreeRecord,
         (at' = at /\ l = at[h]) \/ Goto(h, l),
         (run' = run /\ r = run[h]) \/ SetRun(h, r),
         (tree' = tree /\ t = tree[h]) \/ SetTree(h, t),
         UNCHANGED <<kind, product, cache, starts, resumed>>,
         disk \subseteq disk', disk' \subseteq Files, cut' \subseteq cut \cup {<<h, starts[h]>>},
         l \in Holding => at[h] \in Holding, l \in Marked => at[h] \in Marked,
         at'[h] = l /\ run'[h] = r /\ tree'[h] = t /\ starts' = starts /\ resumed' = resumed /\ product' = product /\ kind' = kind
            => TreeBounded(h)' /\ HarnessLocal(h)'
  PROVE  HarnessInv'
<1>1. /\ at' \in [Harnesses -> Labels] /\ run' \in [Harnesses -> RunRecord] /\ tree' \in [Harnesses -> TreeRecord]
      /\ at'[h] = l /\ run'[h] = r /\ tree'[h] = t
      /\ \A g \in Harnesses : g # h => at'[g] = at[g] /\ run'[g] = run[g] /\ tree'[g] = tree[g]
  BY HarnessMoves
<1>2. starts \in [Harnesses -> Nat]
  BY DEF HarnessInv, HarnessTyped
<1>3. starts' \in [Harnesses -> Nat] /\ starts[h] <= starts'[h]
  BY <1>2
<1> QED BY <1>1, <1>3, StepKeeps

\* The job and the streams.
LEMMA CreateJobKeeps ==
  ASSUME ControlledRunAssumption, HarnessInv, NEW h \in Harnesses, CreateJob(h)
  PROVE  HarnessInv'
<1>1. PICK l \in {"create", "finally"} :
         /\ Goto(h, l)
         /\ l = "create" => SetTree(h, [tree[h] EXCEPT !.job = TRUE])
         /\ l = "finally" => tree' = tree
  BY DEF CreateJob
<1>2. /\ at[h] = "job" /\ UNCHANGED <<kind, product, cache, run, starts, resumed, cut>>
      /\ disk' = disk \cup {"streams"} \/ disk' = disk
  BY DEF CreateJob
<1> DEFINE t == IF l = "create" THEN [tree[h] EXCEPT !.job = TRUE] ELSE tree[h]
<1>3. /\ run[h] \in RunRecord /\ tree[h] \in TreeRecord /\ TreeBounded(h) /\ HarnessLocal(h)
      /\ disk \subseteq Files
  BY HarnessTypes
<1>4. l \in Labels /\ t \in TreeRecord /\ disk \subseteq disk' /\ disk' \subseteq Files
  BY <1>1, <1>2, <1>3 DEF Labels, TreeRecord, Files
<1>5. /\ t.root = tree[h].root /\ t.inJob = tree[h].inJob /\ t.kids = tree[h].kids /\ t.total = tree[h].total
      /\ t.limitMsg = tree[h].limitMsg /\ t.killed = tree[h].killed /\ (l = "create" => t.job)
  BY <1>3 DEF TreeRecord
<1> HIDE DEF t
<1>6. ASSUME at'[h] = l, run'[h] = run[h], tree'[h] = t, starts' = starts, resumed' = resumed, product' = product, kind' = kind
      PROVE  TreeBounded(h)' /\ HarnessLocal(h)'
  <2>1. TreeBounded(h)'
    BY <1>3, <1>5, <1>6 DEF TreeBounded, RootActive
  <2>2. TreeSoFar(h)' /\ TreeInJob(h)'
    BY <1>1, <1>2, <1>3, <1>5, <1>6 DEF HarnessLocal, TreeSoFar, TreeInJob, Executing, Busy
  <2>3. run[h] = NoRun
    BY <1>2, <1>3 DEF HarnessLocal, RunSoFar, Marked
  <2>4. RunSoFar(h)'
    BY <1>1, <1>6, <2>3 DEF RunSoFar, Busy, Marked, NoRun
  <2>5. Over(h)' /\ Stands(h)'
    BY <1>1, <1>2, <1>3, <1>5, <1>6, <2>3 DEF HarnessLocal, TreeSoFar, Over, Stands, Executing, Undisturbed, NoRun
  <2> QED BY <2>1, <2>2, <2>4, <2>5 DEF HarnessLocal
<1>7. SetTree(h, t) \/ (tree' = tree /\ t = tree[h])
  BY <1>1 DEF t
<1> QED BY <1>1, <1>2, <1>3, <1>4, <1>6, <1>7, QuietKeeps DEF Holding, Marked

\* CreateProcessW.
LEMMA CreateProcessKeeps ==
  ASSUME ControlledRunAssumption, HarnessInv, NEW h \in Harnesses, CreateProcess(h)
  PROVE  HarnessInv'
<1>1. PICK l \in {"assign", "finally"} :
         /\ Goto(h, l)
         /\ l = "assign" => SetTree(h, [tree[h] EXCEPT !.root = "suspended"])
         /\ l = "finally" => tree' = tree
  BY DEF CreateProcess
<1>2. at[h] = "create" /\ UNCHANGED <<kind, disk, product, cache, run, starts, resumed, cut>>
  BY DEF CreateProcess
<1> DEFINE t == IF l = "assign" THEN [tree[h] EXCEPT !.root = "suspended"] ELSE tree[h]
<1>3. /\ run[h] \in RunRecord /\ tree[h] \in TreeRecord /\ TreeBounded(h) /\ HarnessLocal(h)
      /\ disk \subseteq Files
  BY HarnessTypes
<1>4. l \in Labels /\ t \in TreeRecord
  BY <1>1, <1>3 DEF Labels, TreeRecord
<1>5. /\ t.root = (IF l = "assign" THEN "suspended" ELSE tree[h].root)
      /\ t.inJob = tree[h].inJob /\ t.kids = tree[h].kids /\ t.total = tree[h].total
      /\ t.limitMsg = tree[h].limitMsg /\ t.killed = tree[h].killed /\ t.job = tree[h].job
  BY <1>3 DEF TreeRecord
<1> HIDE DEF t
<1>6. ASSUME at'[h] = l, run'[h] = run[h], tree'[h] = t, starts' = starts, resumed' = resumed, product' = product, kind' = kind
      PROVE  TreeBounded(h)' /\ HarnessLocal(h)'
  <2>1. TreeBounded(h)'
    BY <1>2, <1>3, <1>5, <1>6, LimitFields DEF TreeBounded, RootActive, HarnessLocal, TreeSoFar, ControlledRunAssumption
  <2>2. TreeSoFar(h)' /\ TreeInJob(h)'
    BY <1>1, <1>2, <1>3, <1>5, <1>6 DEF HarnessLocal, TreeSoFar, TreeInJob, Executing, Busy
  <2>3. run[h] = NoRun
    BY <1>2, <1>3 DEF HarnessLocal, RunSoFar, Marked
  <2>4. RunSoFar(h)'
    BY <1>1, <1>6, <2>3 DEF RunSoFar, Busy, Marked, NoRun
  <2>5. Over(h)' /\ Stands(h)'
    BY <1>1, <1>2, <1>3, <1>5, <1>6, <2>3 DEF HarnessLocal, TreeSoFar, Over, Stands, Executing, Undisturbed, NoRun
  <2> QED BY <2>1, <2>2, <2>4, <2>5 DEF HarnessLocal
<1>7. SetTree(h, t) \/ (tree' = tree /\ t = tree[h])
  BY <1>1 DEF t
<1> QED BY <1>1, <1>2, <1>3, <1>4, <1>6, <1>7, QuietKeeps DEF Holding, Marked

\* AssignProcessToJobObject.
LEMMA AssignKeeps ==
  ASSUME ControlledRunAssumption, HarnessInv, NEW h \in Harnesses, Assign(h)
  PROVE  HarnessInv'
<1>1. PICK l \in {"resume", "finally"} :
         /\ Goto(h, l)
         /\ l = "resume" => SetTree(h, [tree[h] EXCEPT !.inJob = TRUE, !.total = 1])
         /\ l = "finally" => SetTree(h, [tree[h] EXCEPT !.root = "exited"])
  BY DEF Assign
<1>2. at[h] = "assign" /\ UNCHANGED <<kind, disk, product, cache, run, starts, resumed, cut>>
  BY DEF Assign
<1> DEFINE t == IF l = "resume" THEN [tree[h] EXCEPT !.inJob = TRUE, !.total = 1] ELSE [tree[h] EXCEPT !.root = "exited"]
<1>3. /\ run[h] \in RunRecord /\ tree[h] \in TreeRecord /\ TreeBounded(h) /\ HarnessLocal(h)
      /\ disk \subseteq Files
  BY HarnessTypes
<1>4. l \in Labels /\ t \in TreeRecord
  BY <1>1, <1>3 DEF Labels, TreeRecord
<1>5. /\ t.root = (IF l = "resume" THEN tree[h].root ELSE "exited")
      /\ t.inJob = (l = "resume" \/ tree[h].inJob) /\ t.total = (IF l = "resume" THEN 1 ELSE tree[h].total)
      /\ t.kids = tree[h].kids
      /\ t.limitMsg = tree[h].limitMsg /\ t.killed = tree[h].killed /\ t.job = tree[h].job
  BY <1>1, <1>3 DEF TreeRecord
<1> HIDE DEF t
<1>6. ASSUME at'[h] = l, run'[h] = run[h], tree'[h] = t, starts' = starts, resumed' = resumed, product' = product, kind' = kind
      PROVE  TreeBounded(h)' /\ HarnessLocal(h)'
  <2>1. TreeBounded(h)'
    BY <1>2, <1>3, <1>5, <1>6, LimitFields DEF TreeBounded, RootActive, HarnessLocal, TreeSoFar, TreeRecord, ControlledRunAssumption
  <2>2. TreeSoFar(h)' /\ TreeInJob(h)'
    BY <1>1, <1>2, <1>3, <1>5, <1>6 DEF HarnessLocal, TreeSoFar, TreeInJob, Executing, Busy
  <2>3. run[h] = NoRun
    BY <1>2, <1>3 DEF HarnessLocal, RunSoFar, Marked
  <2>4. RunSoFar(h)'
    BY <1>1, <1>6, <2>3 DEF RunSoFar, Busy, Marked, NoRun
  <2>5. Over(h)' /\ Stands(h)'
    BY <1>1, <1>2, <1>3, <1>5, <1>6, <2>3 DEF HarnessLocal, TreeSoFar, Over, Stands, Executing, Undisturbed, NoRun
  <2> QED BY <2>1, <2>2, <2>4, <2>5 DEF HarnessLocal
<1>7. SetTree(h, t)
  BY <1>1 DEF t
<1> QED BY <1>1, <1>2, <1>3, <1>4, <1>6, <1>7, QuietKeeps DEF Holding, Marked

\* ResumeThread: the one step that resumes a program.
LEMMA ResumeKeeps ==
  ASSUME ControlledRunAssumption, HarnessInv, NEW h \in Harnesses, Resume(h)
  PROVE  HarnessInv'
<1>1. PICK l \in {"wait", "finally"} :
         /\ Goto(h, l)
         /\ l = "wait" => /\ SetTree(h, [tree[h] EXCEPT !.root = "running"])
                          /\ SetRun(h, [run[h] EXCEPT !.started = TRUE])
                          /\ resumed' = resumed \cup {<<h, starts[h]>>}
         /\ l = "finally" => UNCHANGED <<tree, run, resumed>>
  BY DEF Resume
<1>2. at[h] = "resume" /\ UNCHANGED <<kind, disk, product, cache, starts, cut>>
  BY DEF Resume
<1> DEFINE t == IF l = "wait" THEN [tree[h] EXCEPT !.root = "running"] ELSE tree[h]
           r == IF l = "wait" THEN [run[h] EXCEPT !.started = TRUE] ELSE run[h]
<1>3. /\ run[h] \in RunRecord /\ tree[h] \in TreeRecord /\ TreeBounded(h) /\ HarnessLocal(h)
      /\ disk \subseteq Files /\ starts \in [Harnesses -> Nat]
  BY HarnessTypes DEF HarnessInv, HarnessTyped
<1>4. run[h] = NoRun
  BY <1>2, <1>3 DEF HarnessLocal, RunSoFar, Marked
<1>5. l \in Labels /\ t \in TreeRecord /\ r \in RunRecord
  <2>1. l \in Labels
    BY <1>1 DEF Labels
  <2>2. t \in TreeRecord
    BY <1>3 DEF TreeRecord
  <2>3. r \in RunRecord
    BY <1>3 DEF RunRecord
  <2> QED BY <2>1, <2>2, <2>3
<1>6. /\ t.root = (IF l = "wait" THEN "running" ELSE tree[h].root)
      /\ t.inJob = tree[h].inJob /\ t.kids = tree[h].kids /\ t.total = tree[h].total
      /\ t.limitMsg = tree[h].limitMsg /\ t.killed = tree[h].killed /\ t.job = tree[h].job
      /\ (r.started => l = "wait") /\ ~r.timedOut /\ ~r.limitHit /\ ~r.remaining /\ r.outcome = "none"
  BY <1>3, <1>4 DEF TreeRecord, RunRecord, NoRun
<1>7. SetTree(h, t) \/ (tree' = tree /\ t = tree[h])
  BY <1>1
<1>8. SetRun(h, r) \/ (run' = run /\ r = run[h])
  BY <1>1
<1> HIDE DEF t, r
<1>9. /\ at' \in [Harnesses -> Labels] /\ run' \in [Harnesses -> RunRecord] /\ tree' \in [Harnesses -> TreeRecord]
      /\ at'[h] = l /\ run'[h] = r /\ tree'[h] = t
      /\ \A g \in Harnesses : g # h => at'[g] = at[g] /\ run'[g] = run[g] /\ tree'[g] = tree[g]
  BY <1>1, <1>5, <1>7, <1>8, HarnessMoves
<1>10. TreeBounded(h)'
  BY <1>2, <1>3, <1>6, <1>9 DEF TreeBounded, RootActive, HarnessLocal, TreeSoFar
<1>11. HarnessLocal(h)'
  <2>1. TreeSoFar(h)'
    BY <1>1, <1>2, <1>3, <1>6, <1>9 DEF HarnessLocal, TreeSoFar
  <2>2. TreeInJob(h)'
    BY <1>1, <1>2, <1>3, <1>6, <1>9 DEF HarnessLocal, TreeSoFar, TreeInJob, Executing, Busy
  <2>3. RunSoFar(h)'
    BY <1>1, <1>2, <1>3, <1>6, <1>9 DEF HarnessLocal, TreeSoFar, RunSoFar, Busy, Marked
  <2>4. <<h, starts[h]>> \notin cut
    BY <1>2, <1>3, <1>4 DEF HarnessLocal, Over, Undisturbed, NoRun
  <2>5. Over(h)' /\ Stands(h)'
    BY <1>1, <1>2, <1>3, <1>6, <1>9, <2>4 DEF HarnessLocal, TreeSoFar, Over, Stands, Executing
  <2> QED BY <2>1, <2>2, <2>3, <2>5 DEF HarnessLocal
<1>12. at[h] \in Holding /\ at[h] \in Marked
  BY <1>2 DEF Holding, Marked
<1>13. starts' \in [Harnesses -> Nat] /\ starts[h] <= starts'[h]
  BY <1>2, <1>3
<1>14. resumed' = resumed \/ (at[h] = "resume" /\ at'[h] = "wait" /\ resumed' = resumed \cup {<<h, starts[h]>>})
  BY <1>1, <1>2, <1>9
<1> QED BY <1>2, <1>3, <1>9, <1>10, <1>11, <1>12, <1>13, <1>14, StepKeeps

\* A wait that only moves on, with the locals it has drained or timed out.
LEMMA WaitingKeeps ==
  ASSUME ControlledRunAssumption, HarnessInv, NEW h \in Harnesses,
         NEW l \in {"wait", "account", "terminate", "collect"}, NEW r \in RunRecord, NEW t \in TreeRecord,
         at[h] \in {"wait", "account"}, Goto(h, l),
         (run' = run /\ r = run[h]) \/ SetRun(h, r), (tree' = tree /\ t = tree[h]) \/ SetTree(h, t),
         UNCHANGED <<kind, disk, product, cache, starts, resumed, cut>>,
         /\ t.root = tree[h].root /\ t.inJob = tree[h].inJob /\ t.kids = tree[h].kids /\ t.total = tree[h].total
         /\ t.killed = tree[h].killed /\ t.job = tree[h].job,
         /\ r.started = run[h].started /\ r.remaining = run[h].remaining /\ r.outcome = run[h].outcome
         /\ run[h].timedOut => r.timedOut
         /\ run[h].limitHit => r.limitHit
         /\ kind = "smoke" => r.limitHit = run[h].limitHit,
         l = "account" => kind = "build",
         l = "terminate" => r.timedOut \/ r.limitHit,
         l = "collect" /\ kind = "smoke" => r.timedOut \/ t.root = "exited"
  PROVE  HarnessInv'
<1>1. /\ run[h] \in RunRecord /\ tree[h] \in TreeRecord /\ TreeBounded(h) /\ HarnessLocal(h) /\ disk \subseteq Files
  BY HarnessTypes
<1>2. l \in Labels
  BY DEF Labels
<1>3. ASSUME at'[h] = l, run'[h] = r, tree'[h] = t, starts' = starts, resumed' = resumed, product' = product, kind' = kind
      PROVE  TreeBounded(h)' /\ HarnessLocal(h)'
  <2>1. TreeBounded(h)'
    BY <1>1, <1>3 DEF TreeBounded, RootActive
  <2>2. TreeSoFar(h)' /\ TreeInJob(h)'
    BY <1>1, <1>3 DEF HarnessLocal, TreeSoFar, TreeInJob, Executing, Busy
  <2>3. run[h].outcome = "none" /\ ~run[h].remaining
    BY <1>1 DEF HarnessLocal, RunSoFar, Busy
  <2>4. RunSoFar(h)'
    BY <1>1, <1>3, <2>3 DEF HarnessLocal, RunSoFar, Busy, Marked
  <2>5. Over(h)' /\ Stands(h)'
    BY <1>1, <1>3, <2>3 DEF HarnessLocal, Over, Stands, Undisturbed
  <2> QED BY <2>1, <2>2, <2>4, <2>5 DEF HarnessLocal
<1> QED BY <1>1, <1>2, <1>3, QuietKeeps DEF Holding, Marked

\* The waits, the accounting and the deadline.
LEMMA WaitsKeep ==
  ASSUME ControlledRunAssumption, HarnessInv, NEW h \in Harnesses,
         WaitSmoke(h) \/ WaitBuild(h) \/ Account(h) \/ Timeout(h)
  PROVE  HarnessInv'
<1>1. run[h] \in RunRecord /\ tree[h] \in TreeRecord
  BY HarnessTypes
<1>2. CASE WaitSmoke(h)
  BY <1>1, <1>2, WaitingKeeps DEF WaitSmoke
<1>3. CASE WaitBuild(h)
  <2> DEFINE r == [Drained(h) EXCEPT !.rootSeen = @ \/ tree[h].root = "exited"]
             t == [tree[h] EXCEPT !.limitMsg = FALSE]
  <2>1. /\ at[h] = "wait" /\ kind = "build" /\ Goto(h, "account") /\ SetRun(h, r) /\ SetTree(h, t)
        /\ UNCHANGED <<kind, disk, product, cache, starts, resumed, cut>>
    BY <1>3 DEF WaitBuild
  <2>2. /\ r \in RunRecord /\ t \in TreeRecord
        /\ t.root = tree[h].root /\ t.inJob = tree[h].inJob /\ t.kids = tree[h].kids /\ t.total = tree[h].total
        /\ t.killed = tree[h].killed /\ t.job = tree[h].job
        /\ r.started = run[h].started /\ r.remaining = run[h].remaining /\ r.outcome = run[h].outcome
        /\ (run[h].timedOut => r.timedOut) /\ (run[h].limitHit => r.limitHit)
    BY <1>1 DEF Drained, RunRecord, TreeRecord
  <2> HIDE DEF r, t
  <2> QED BY <2>1, <2>2, WaitingKeeps
<1>4. CASE Account(h)
  <2>1. PICK l \in {"terminate", "collect", "wait"} :
          /\ Goto(h, l) /\ (l = "terminate" => run[h].limitHit)
          /\ l = "collect" => run[h].rootSeen
    BY <1>4 DEF Account
  <2>2. at[h] = "account" /\ UNCHANGED <<kind, disk, product, cache, run, tree, starts, resumed, cut>>
    BY <1>4 DEF Account
  <2>3. kind = "build"
    BY <2>2, HarnessTypes DEF HarnessLocal, RunSoFar
  <2> QED BY <1>1, <2>1, <2>2, <2>3, WaitingKeeps
<1>5. CASE Timeout(h)
  <2> DEFINE r == [run[h] EXCEPT !.timedOut = TRUE]
  <2>1. /\ at[h] = "wait" /\ Goto(h, "terminate") /\ SetRun(h, r)
        /\ UNCHANGED <<kind, disk, product, cache, tree, starts, resumed, cut>>
    BY <1>5 DEF Timeout
  <2>2. /\ r \in RunRecord /\ r.timedOut = TRUE
        /\ r.started = run[h].started /\ r.remaining = run[h].remaining /\ r.outcome = run[h].outcome
        /\ r.limitHit = run[h].limitHit
    BY <1>1 DEF RunRecord
  <2> HIDE DEF r
  <2> QED BY <1>1, <2>1, <2>2, WaitingKeeps
<1> QED BY <1>2, <1>3, <1>4, <1>5

\* What TerminateJobObject leaves of a tree.
LEMMA KilledFields ==
  ASSUME HarnessInv, NEW h \in Harnesses
  PROVE  /\ Killed(h) \in TreeRecord
         /\ Killed(h).root = tree[h].root /\ Killed(h).inJob = tree[h].inJob /\ Killed(h).kids = tree[h].kids
         /\ Killed(h).total = tree[h].total /\ Killed(h).limitMsg = tree[h].limitMsg
         /\ Killed(h).exitOk = tree[h].exitOk /\ Killed(h).job = tree[h].job
         /\ tree[h].killed \/ (tree[h].job /\ tree[h].inJob) => Killed(h).killed
         /\ Cuts(h) \subseteq cut \cup {<<h, starts[h]>>}
         /\ ~Executing(h) => Cuts(h) = cut
<1>1. tree[h] \in TreeRecord
  BY HarnessTypes
<1>2. Cuts(h) \subseteq cut \cup {<<h, starts[h]>>} /\ (~Executing(h) => Cuts(h) = cut)
  BY DEF Cuts
<1>3. CASE tree[h].job /\ tree[h].inJob
  <2>1. Killed(h) = [tree[h] EXCEPT !.killed = TRUE]
    BY <1>3 DEF Killed
  <2> QED BY <1>1, <1>2, <2>1 DEF TreeRecord
<1>4. CASE ~(tree[h].job /\ tree[h].inJob)
  <2>1. Killed(h) = tree[h]
    BY <1>4 DEF Killed
  <2> QED BY <1>1, <1>2, <1>4, <2>1
<1> QED BY <1>3, <1>4

\* The job is terminated after a timeout or a hit limit.
LEMMA TerminateKeeps ==
  ASSUME ControlledRunAssumption, HarnessInv, NEW h \in Harnesses, Terminate(h)
  PROVE  HarnessInv'
<1> DEFINE t == Killed(h)
<1>1. /\ at[h] = "terminate" /\ Goto(h, "collect") /\ SetTree(h, t) /\ cut' = Cuts(h)
      /\ UNCHANGED <<kind, disk, product, cache, run, starts, resumed>>
  BY DEF Terminate
<1>2. /\ run[h] \in RunRecord /\ tree[h] \in TreeRecord /\ TreeBounded(h) /\ HarnessLocal(h) /\ disk \subseteq Files
  BY HarnessTypes
<1>3. /\ t \in TreeRecord /\ t.root = tree[h].root /\ t.inJob = tree[h].inJob /\ t.kids = tree[h].kids
      /\ t.total = tree[h].total /\ t.limitMsg = tree[h].limitMsg /\ t.job = tree[h].job
      /\ (tree[h].killed => t.killed) /\ cut' \subseteq cut \cup {<<h, starts[h]>>}
  BY <1>1, KilledFields
<1> HIDE DEF t
<1>4. ASSUME at'[h] = "collect", run'[h] = run[h], tree'[h] = t, starts' = starts, resumed' = resumed, product' = product, kind' = kind
      PROVE  TreeBounded(h)' /\ HarnessLocal(h)'
  <2>1. TreeBounded(h)'
    BY <1>2, <1>3, <1>4 DEF TreeBounded, RootActive
  <2>2. TreeSoFar(h)' /\ TreeInJob(h)'
    BY <1>1, <1>2, <1>3, <1>4 DEF HarnessLocal, TreeSoFar, TreeInJob, Executing, Busy
  <2>3. /\ run[h].outcome = "none" /\ ~run[h].remaining /\ (run[h].timedOut \/ run[h].limitHit)
        /\ (kind = "smoke" => run[h].timedOut)
    BY <1>1, <1>2 DEF HarnessLocal, RunSoFar, Busy
  <2>4. RunSoFar(h)'
    BY <1>1, <1>2, <1>3, <1>4, <2>3 DEF HarnessLocal, RunSoFar, Busy, Marked
  <2>5. Over(h)' /\ Stands(h)'
    BY <1>1, <1>4, <2>3 DEF Over, Stands, Undisturbed
  <2> QED BY <2>1, <2>2, <2>4, <2>5 DEF HarnessLocal
<1>5. "collect" \in Labels
  BY DEF Labels
<1> QED BY <1>1, <1>2, <1>3, <1>4, <1>5, QuietKeeps DEF Holding, Marked

\* The exit code and what is left of the tree: without a disturbance, nothing.
LEMMA CollectKeeps ==
  ASSUME ControlledRunAssumption, HarnessInv, NEW h \in Harnesses, CollectSmoke(h) \/ CollectBuild(h)
  PROVE  HarnessInv'
<1>1. /\ run[h] \in RunRecord /\ tree[h] \in TreeRecord /\ TreeBounded(h) /\ HarnessLocal(h) /\ disk \subseteq Files
  BY HarnessTypes
<1>2. /\ at[h] = "collect" /\ Goto(h, "finally")
      /\ UNCHANGED <<kind, disk, product, cache, tree, starts, resumed, cut>>
  BY DEF CollectSmoke, CollectBuild
<1>3. tree[h].root \in {"running", "exited"} /\ tree[h].inJob
  BY <1>1, <1>2 DEF HarnessLocal, TreeSoFar
<1>4. run[h].outcome = "none" /\ (kind = "smoke" => run[h].timedOut \/ tree[h].root = "exited")
  BY <1>1, <1>2 DEF HarnessLocal, RunSoFar, Busy
<1>5. PICK r \in RunRecord :
        /\ SetRun(h, r)
        /\ r.started = run[h].started /\ r.timedOut = run[h].timedOut /\ r.limitHit = run[h].limitHit
        /\ r.outcome = "none" /\ (r.exitOk => tree[h].exitOk)
        /\ ~r.timedOut /\ ~r.remaining => ~Executing(h) /\ tree[h].root = "exited"
        /\ kind = "smoke" /\ ~r.childSeen => ~tree[h].limitMsg
  <2>1. CASE CollectSmoke(h)
    <3> DEFINE r == [run[h] EXCEPT
              !.remaining = run[h].timedOut /\ RootActive(h) = 1,
              !.exitOk = tree[h].root = "exited" /\ tree[h].exitOk,
              !.childSeen = tree[h].limitMsg \/ tree[h].total > 1]
    <3>1. SetRun(h, r) /\ kind = "smoke"
      BY <2>1 DEF CollectSmoke
    <3>2. r \in RunRecord
      <4>1. ASSUME NEW remains \in BOOLEAN, NEW exited \in BOOLEAN, NEW seen \in BOOLEAN
            PROVE  [run[h] EXCEPT !.remaining = remains, !.exitOk = exited, !.childSeen = seen] \in RunRecord
        BY <1>1 DEF RunRecord
      <4>2. /\ (run[h].timedOut /\ RootActive(h) = 1) \in BOOLEAN
            /\ (tree[h].root = "exited" /\ tree[h].exitOk) \in BOOLEAN
            /\ (tree[h].limitMsg \/ tree[h].total > 1) \in BOOLEAN
        OBVIOUS
      <4> QED BY <4>1, <4>2
    <3>3. /\ r.started = run[h].started /\ r.timedOut = run[h].timedOut /\ r.limitHit = run[h].limitHit
          /\ r.outcome = run[h].outcome /\ (r.exitOk => tree[h].exitOk)
          /\ ~r.childSeen => ~tree[h].limitMsg
      BY <1>1 DEF RunRecord
    <3> HIDE DEF r
    <3>4. tree[h].kids = 0
      BY <1>1, <3>1, LimitFields DEF HarnessLocal, TreeInJob, ControlledRunAssumption
    <3>5. ~r.timedOut => ~Executing(h) /\ tree[h].root = "exited"
      BY <1>4, <3>1, <3>3, <3>4 DEF Executing
    <3> QED BY <1>4, <3>1, <3>2, <3>3, <3>5
  <2>2. CASE CollectBuild(h)
    <3>1. PICK active \in Accounted(h) :
            SetRun(h, [run[h] EXCEPT !.remaining = active # 0, !.exitOk = tree[h].root = "exited" /\ tree[h].exitOk])
      BY <2>2 DEF CollectBuild
    <3> DEFINE r == [run[h] EXCEPT !.remaining = active # 0, !.exitOk = tree[h].root = "exited" /\ tree[h].exitOk]
    <3>2. r \in RunRecord
      <4>1. ASSUME NEW remains \in BOOLEAN, NEW exited \in BOOLEAN
            PROVE  [run[h] EXCEPT !.remaining = remains, !.exitOk = exited] \in RunRecord
        BY <1>1 DEF RunRecord
      <4>2. (active # 0) \in BOOLEAN /\ (tree[h].root = "exited" /\ tree[h].exitOk) \in BOOLEAN
        OBVIOUS
      <4> QED BY <4>1, <4>2
    <3>3. /\ r.started = run[h].started /\ r.timedOut = run[h].timedOut /\ r.limitHit = run[h].limitHit
          /\ r.outcome = run[h].outcome /\ (r.exitOk => tree[h].exitOk) /\ (~r.remaining => active = 0)
      BY <1>1 DEF RunRecord
    <3>4. SetRun(h, r) /\ kind = "build"
      BY <2>2, <3>1 DEF CollectBuild
    <3> HIDE DEF r
    <3>5. active = 0 => RootActive(h) + tree[h].kids = 0
      BY <1>3, <3>1, LimitFields DEF Accounted, Active, ControlledRunAssumption
    <3>6. active = 0 => tree[h].kids = 0 /\ tree[h].root \notin {"suspended", "running"}
      BY <1>1, <3>5 DEF RootActive, TreeRecord
    <3>7. active = 0 => ~Executing(h) /\ tree[h].root = "exited"
      BY <1>3, <3>6 DEF Executing
    <3> QED BY <1>4, <3>2, <3>3, <3>4, <3>7
  <2> QED BY <2>1, <2>2
<1>6. ASSUME at'[h] = "finally", run'[h] = r, tree'[h] = tree[h], starts' = starts, resumed' = resumed, product' = product, kind' = kind
      PROVE  TreeBounded(h)' /\ HarnessLocal(h)'
  <2>1. TreeBounded(h)'
    BY <1>1, <1>6 DEF TreeBounded, RootActive
  <2>2. TreeSoFar(h)' /\ TreeInJob(h)'
    BY <1>1, <1>2, <1>6 DEF HarnessLocal, TreeSoFar, TreeInJob, Executing, Busy
  <2>3. RunSoFar(h)'
    BY <1>1, <1>2, <1>5, <1>6 DEF HarnessLocal, RunSoFar, Busy, Marked
  <2>4. <<h, starts[h]>> \in cut => run[h].timedOut \/ run[h].limitHit
    BY <1>1, <1>2 DEF HarnessLocal, Over, RunSoFar, Undisturbed
  <2>5. Over(h)'
    BY <1>2, <1>5, <1>6, <2>4 DEF Over, Undisturbed, Executing
  <2>6. Stands(h)'
    BY <1>5, <1>6 DEF Stands
  <2> QED BY <2>1, <2>2, <2>3, <2>5, <2>6 DEF HarnessLocal
<1>7. "finally" \in Labels
  BY DEF Labels
<1> QED BY <1>1, <1>2, <1>5, <1>6, <1>7, QuietKeeps DEF Holding, Marked

\* The handles close: in the `finally`, or with the harness.
LEMMA ClosingKeeps ==
  ASSUME ControlledRunAssumption, HarnessInv, NEW h \in Harnesses, Finally(h) \/ HarnessDies(h)
  PROVE  HarnessInv'
<1> DEFINE t == [Killed(h) EXCEPT !.job = FALSE]
<1>1. PICK l \in {"judge", "dead"} :
         Goto(h, l) /\ (l = "judge" => at[h] = "finally") /\ Busy(h)
  BY DEF Finally, HarnessDies, Busy
<1>2. SetTree(h, t) /\ cut' = Cuts(h) /\ UNCHANGED <<kind, disk, product, cache, run, starts, resumed>>
  BY DEF Finally, HarnessDies
<1>3. /\ run[h] \in RunRecord /\ tree[h] \in TreeRecord /\ TreeBounded(h) /\ HarnessLocal(h) /\ disk \subseteq Files
  BY HarnessTypes
<1>4. /\ t \in TreeRecord /\ t.root = tree[h].root /\ t.inJob = tree[h].inJob /\ t.kids = tree[h].kids
      /\ t.total = tree[h].total /\ t.limitMsg = tree[h].limitMsg /\ t.exitOk = tree[h].exitOk /\ t.job = FALSE
      /\ tree[h].killed \/ (tree[h].job /\ tree[h].inJob) => t.killed
      /\ cut' \subseteq cut \cup {<<h, starts[h]>>} /\ (~Executing(h) => cut' = cut)
  <2>1. t \in TreeRecord
    BY KilledFields DEF TreeRecord
  <2> QED BY <1>2, <2>1, KilledFields DEF TreeRecord
<1> HIDE DEF t
<1>5. ASSUME at'[h] = l, run'[h] = run[h], tree'[h] = t, starts' = starts, resumed' = resumed, product' = product, kind' = kind
      PROVE  TreeBounded(h)' /\ HarnessLocal(h)'
  <2>1. TreeBounded(h)'
    BY <1>3, <1>4, <1>5 DEF TreeBounded, RootActive
  <2>2. Executing(h)' = Executing(h)
    BY <1>4, <1>5 DEF Executing
  <2>3. TreeSoFar(h)'
    BY <1>1, <1>4, <1>5 DEF TreeSoFar
  <2>4. TreeInJob(h)'
    BY <1>3, <1>4, <1>5, <2>2 DEF HarnessLocal, TreeInJob
  <2>5. RunSoFar(h)'
    BY <1>1, <1>3, <1>4, <1>5 DEF HarnessLocal, RunSoFar, Busy, Marked
  <2>6. Over(h)'
    BY <1>1, <1>3, <1>4, <1>5, <2>2 DEF HarnessLocal, Over, Undisturbed
  <2>7. Stands(h)'
    BY <1>3, <1>4, <1>5, <2>2 DEF HarnessLocal, Stands
  <2> QED BY <2>1, <2>3, <2>4, <2>5, <2>6, <2>7 DEF HarnessLocal
<1>6. l \in Labels
  BY <1>1 DEF Labels
<1>7. l \in Holding => at[h] \in Holding
  BY <1>1 DEF Holding, Marked
<1>8. l \notin Marked
  BY <1>1 DEF Marked
<1> QED BY <1>1, <1>2, <1>3, <1>4, <1>5, <1>6, <1>7, <1>8, QuietKeeps

\* The judgement.
LEMMA JudgeKeeps ==
  ASSUME ControlledRunAssumption, HarnessInv, NEW h \in Harnesses, Judge(h)
  PROVE  HarnessInv'
<1>1. PICK clean \in BOOLEAN :
        SetRun(h, [run[h] EXCEPT !.outcome =
          IF (IF kind = "smoke" THEN SmokeVerdict(h, clean) ELSE BuildVerdict(h, clean)) THEN "success" ELSE "failure"])
  BY DEF Judge
<1> DEFINE r == [run[h] EXCEPT !.outcome =
          IF (IF kind = "smoke" THEN SmokeVerdict(h, clean) ELSE BuildVerdict(h, clean)) THEN "success" ELSE "failure"]
<1>2. /\ at[h] = "judge" /\ Goto(h, "report") /\ SetRun(h, r)
      /\ UNCHANGED <<kind, disk, product, cache, tree, starts, resumed, cut>>
  BY <1>1 DEF Judge
<1>3. /\ run[h] \in RunRecord /\ tree[h] \in TreeRecord /\ TreeBounded(h) /\ HarnessLocal(h) /\ disk \subseteq Files
  BY HarnessTypes
<1>4. r \in RunRecord
  BY <1>3 DEF RunRecord
<1>5. /\ r.started = run[h].started /\ r.timedOut = run[h].timedOut /\ r.limitHit = run[h].limitHit
      /\ r.remaining = run[h].remaining
      /\ r.outcome = "success" => IF kind = "smoke" THEN SmokeVerdict(h, clean) ELSE BuildVerdict(h, clean)
  BY <1>3 DEF RunRecord
<1> HIDE DEF r
<1>6. ASSUME r.outcome = "success"
      PROVE  /\ Undisturbed(h) /\ run[h].started
             /\ kind = "smoke" => product.raw = "whole" /\ ~run[h].childSeen
             /\ kind = "build" => run[h].exitOk /\ product.final = product.raw
  <2>1. CASE kind = "smoke"
    BY <1>3, <1>5, <1>6, <2>1 DEF SmokeVerdict, Undisturbed, HarnessLocal, RunSoFar
  <2>2. CASE kind = "build"
    BY <1>5, <1>6, <2>2 DEF BuildVerdict, Postconditions, SameManifest, Undisturbed
  <2> QED BY <2>1, <2>2, LimitFields
<1>7. ASSUME at'[h] = "report", run'[h] = r, tree'[h] = tree[h], starts' = starts, resumed' = resumed, product' = product, kind' = kind
      PROVE  TreeBounded(h)' /\ HarnessLocal(h)'
  <2>1. TreeBounded(h)'
    BY <1>3, <1>7 DEF TreeBounded, RootActive
  <2>2. TreeSoFar(h)' /\ TreeInJob(h)'
    BY <1>2, <1>3, <1>7 DEF HarnessLocal, TreeSoFar, TreeInJob, Executing, Busy
  <2>3. RunSoFar(h)'
    BY <1>2, <1>3, <1>5, <1>7 DEF HarnessLocal, RunSoFar, Busy, Marked
  <2>4. Over(h)'
    BY <1>2, <1>3, <1>5, <1>7 DEF HarnessLocal, Over, Undisturbed
  <2>5. ASSUME r.outcome = "success"
        PROVE  /\ r.started /\ tree[h].root = "exited" /\ ~Executing(h) /\ <<h, starts[h]>> \notin cut
               /\ kind = "build" => tree[h].exitOk /\ product.final = product.raw
               /\ kind = "smoke" => product.raw = "whole" /\ tree[h].total = 1 /\ ~tree[h].limitMsg
    <3>1. /\ tree[h].root = "exited" /\ ~Executing(h) /\ <<h, starts[h]>> \notin cut
          /\ run[h].exitOk => tree[h].exitOk
          /\ kind = "smoke" /\ ~run[h].childSeen => ~tree[h].limitMsg
      BY <1>2, <1>3, <1>6, <2>5 DEF HarnessLocal, Over
    <3>2. kind = "smoke" => tree[h].total = 1
      BY <1>3, <1>6, <2>5, LimitFields DEF HarnessLocal, RunSoFar, TreeInJob, ControlledRunAssumption
    <3> QED BY <1>5, <1>6, <2>5, <3>1, <3>2
  <2>6. Stands(h)'
    BY <1>2, <1>7, <2>5 DEF Stands, Executing
  <2> QED BY <2>1, <2>2, <2>3, <2>4, <2>6 DEF HarnessLocal
<1>8. "report" \in Labels
  BY DEF Labels
<1> QED BY <1>2, <1>3, <1>4, <1>7, <1>8, QuietKeeps DEF Holding, Marked

\* The report.
LEMMA ReportKeeps ==
  ASSUME ControlledRunAssumption, HarnessInv, NEW h \in Harnesses, NEW possible \in BOOLEAN, Published(h, possible)
  PROVE  HarnessInv'
<1>1. /\ at[h] = "report" /\ Goto(h, "done") /\ (disk' = disk \/ disk' = disk \cup {"report"})
      /\ run' = run \/ SetRun(h, [run[h] EXCEPT !.outcome = "failure"])
      /\ UNCHANGED <<kind, product, cache, tree, starts, resumed, cut>>
  BY DEF Published
<1>2. /\ run[h] \in RunRecord /\ tree[h] \in TreeRecord /\ TreeBounded(h) /\ HarnessLocal(h) /\ disk \subseteq Files
  BY HarnessTypes
<1>3. PICK r \in RunRecord :
        /\ (run' = run /\ r = run[h]) \/ SetRun(h, r)
        /\ r.started = run[h].started /\ r.timedOut = run[h].timedOut /\ r.limitHit = run[h].limitHit
        /\ r.remaining = run[h].remaining /\ (r.outcome = "success" => run[h].outcome = "success")
  <2>1. CASE run' = run
    BY <1>2, <2>1
  <2>2. CASE SetRun(h, [run[h] EXCEPT !.outcome = "failure"])
    <3>1. [run[h] EXCEPT !.outcome = "failure"] \in RunRecord
      BY <1>2 DEF RunRecord
    <3> QED BY <1>2, <2>2, <3>1 DEF RunRecord
  <2> QED BY <1>1, <2>1, <2>2
<1>4. disk \subseteq disk' /\ disk' \subseteq Files
  BY <1>1, <1>2 DEF Files
<1>5. ASSUME at'[h] = "done", run'[h] = r, tree'[h] = tree[h], starts' = starts, resumed' = resumed, product' = product, kind' = kind
      PROVE  TreeBounded(h)' /\ HarnessLocal(h)'
  <2>1. TreeBounded(h)'
    BY <1>2, <1>5 DEF TreeBounded, RootActive
  <2>2. TreeSoFar(h)'
    BY <1>5 DEF TreeSoFar
  <2>3. TreeInJob(h)'
    <3>1. Executing(h) => tree[h].killed
      BY <1>1, <1>2 DEF HarnessLocal, TreeInJob, TreeSoFar
    <3> QED BY <1>2, <1>5, <3>1 DEF HarnessLocal, TreeInJob, Executing
  <2>4. RunSoFar(h)'
    BY <1>1, <1>2, <1>3, <1>5 DEF HarnessLocal, RunSoFar, Busy, Marked
  <2>5. Over(h)'
    BY <1>1, <1>2, <1>3, <1>5 DEF HarnessLocal, Over, Undisturbed
  <2>6. Stands(h)'
    BY <1>1, <1>2, <1>3, <1>5 DEF HarnessLocal, Stands, Executing
  <2> QED BY <2>1, <2>2, <2>3, <2>4, <2>5, <2>6 DEF HarnessLocal
<1>6. "done" \in Labels /\ "done" \notin Holding /\ "done" \notin Marked
  BY DEF Labels, Holding, Marked
<1> QED BY <1>1, <1>2, <1>3, <1>4, <1>5, <1>6, QuietKeeps

-----------------------------------------------------------------------------
(* The controlled runs: the program and the others.                        *)

\* A process of the tree starts another one, within the limit.
LEMMA SpawnKeeps ==
  ASSUME ControlledRunAssumption, HarnessInv, NEW h \in Harnesses, Spawn(h)
  PROVE  HarnessInv'
<1>1. /\ run[h] \in RunRecord /\ tree[h] \in TreeRecord /\ TreeBounded(h) /\ HarnessLocal(h) /\ disk \subseteq Files
      /\ at[h] \in Labels
  BY HarnessTypes
<1>2. /\ Executing(h) /\ tree[h].total < MaxTotal /\ UNCHANGED <<kind, disk, product, cache, at, run, starts, resumed, cut>>
  BY DEF Spawn
<1>3. tree[h].inJob
  BY <1>1, <1>2 DEF HarnessLocal, TreeInJob
<1>4. PICK t \in TreeRecord :
        /\ SetTree(h, t) /\ t.root = tree[h].root /\ t.inJob = tree[h].inJob
        /\ t.exitOk = tree[h].exitOk /\ t.job = tree[h].job /\ t.killed = tree[h].killed
        /\ \/ RootActive(h) + tree[h].kids < Limit(kind) /\ t.kids = tree[h].kids + 1 /\ t.total = tree[h].total + 1
           \/ t.kids = tree[h].kids /\ t.total = tree[h].total
  <2>1. CASE RootActive(h) + tree[h].kids < Limit(kind)
    <3>1. SetTree(h, [tree[h] EXCEPT !.kids = tree[h].kids + 1, !.total = tree[h].total + 1])
      BY <2>1 DEF Spawn
    <3>2. [tree[h] EXCEPT !.kids = tree[h].kids + 1, !.total = tree[h].total + 1] \in TreeRecord
      <4>1. tree[h].kids + 1 \in Nat /\ tree[h].total + 1 \in Nat
        BY <1>1 DEF TreeRecord
      <4> QED BY <1>1, <4>1 DEF TreeRecord
    <3> QED BY <1>1, <2>1, <3>1, <3>2 DEF TreeRecord
  <2>2. CASE ~(RootActive(h) + tree[h].kids < Limit(kind))
    <3>1. SetTree(h, [tree[h] EXCEPT !.limitMsg = TRUE])
      BY <1>3, <2>2 DEF Spawn
    <3>2. [tree[h] EXCEPT !.limitMsg = TRUE] \in TreeRecord
      BY <1>1 DEF TreeRecord
    <3> QED BY <1>1, <3>1, <3>2 DEF TreeRecord
  <2> QED BY <2>1, <2>2
<1>5. ASSUME at'[h] = at[h], run'[h] = run[h], tree'[h] = t, starts' = starts, resumed' = resumed, product' = product, kind' = kind
      PROVE  TreeBounded(h)' /\ HarnessLocal(h)'
  <2>1. /\ tree[h].kids \in Nat /\ t.kids \in Nat /\ tree[h].total \in Nat /\ t.total \in Nat
        /\ RootActive(h) \in {0, 1} /\ RootActive(h)' = RootActive(h)
        /\ tree[h].root = "running" => RootActive(h) = 1
    BY <1>1, <1>4, <1>5 DEF TreeRecord, RootActive
  <2>2. TreeBounded(h)'
    BY <1>1, <1>2, <1>4, <1>5, <2>1, LimitFields DEF TreeBounded, ControlledRunAssumption
  <2>3. Executing(h)' /\ Busy(h)' = Busy(h)
    BY <1>2, <1>4, <1>5, <2>1 DEF Executing, Busy
  <2>4. TreeSoFar(h)'
    <3>1. at[h] \notin {"idle", "mark1", "mark2", "mark3", "job", "create", "assign", "resume"}
      BY <1>1, <1>2 DEF HarnessLocal, TreeSoFar, Executing
    <3> QED BY <1>1, <1>4, <1>5, <3>1 DEF HarnessLocal, TreeSoFar
  <2>5. TreeInJob(h)'
    <3>1. Limit(kind) = 1 => t.kids = tree[h].kids /\ t.total = tree[h].total
      BY <1>1, <1>2, <1>4, <2>1 DEF HarnessLocal, TreeInJob, Executing
    <3>2. /\ tree[h].inJob' /\ <<h, starts[h]>> \in resumed /\ (tree[h].killed \/ (Busy(h) /\ tree[h].job))
      BY <1>1, <1>2, <1>3, <1>4, <1>5 DEF HarnessLocal, TreeInJob
    <3> QED BY <1>1, <1>4, <1>5, <2>3, <3>1, <3>2 DEF HarnessLocal, TreeInJob
  <2>6. RunSoFar(h)'
    BY <1>1, <1>4, <1>5, <2>3 DEF HarnessLocal, RunSoFar
  <2>7. Over(h)'
    BY <1>1, <1>2, <1>5 DEF HarnessLocal, Over, Undisturbed
  <2>8. Stands(h)'
    BY <1>1, <1>2, <1>5 DEF HarnessLocal, Stands
  <2> QED BY <2>2, <2>4, <2>5, <2>6, <2>7, <2>8 DEF HarnessLocal
<1> QED BY <1>1, <1>2, <1>4, <1>5, QuietKeeps

\* The root ends, by itself or killed.
LEMMA RootExitsKeeps ==
  ASSUME ControlledRunAssumption, HarnessInv, NEW h \in Harnesses, RootExits(h)
  PROVE  HarnessInv'
<1>1. /\ run[h] \in RunRecord /\ tree[h] \in TreeRecord /\ TreeBounded(h) /\ HarnessLocal(h) /\ disk \subseteq Files
      /\ at[h] \in Labels
  BY HarnessTypes
<1>2. /\ tree[h].root = "running" \/ (tree[h].root = "suspended" /\ tree[h].killed)
      /\ UNCHANGED <<kind, disk, product, cache, at, run, starts, resumed, cut>>
  BY DEF RootExits
<1>3. PICK ok \in BOOLEAN : SetTree(h, [tree[h] EXCEPT !.root = "exited", !.exitOk = ok])
  BY DEF RootExits
<1> DEFINE t == [tree[h] EXCEPT !.root = "exited", !.exitOk = ok]
<1>4. /\ t \in TreeRecord /\ SetTree(h, t) /\ t.root = "exited" /\ t.inJob = tree[h].inJob /\ t.kids = tree[h].kids
      /\ t.total = tree[h].total /\ t.limitMsg = tree[h].limitMsg /\ t.job = tree[h].job /\ t.killed = tree[h].killed
  <2>1. t \in TreeRecord
    BY <1>1 DEF TreeRecord
  <2> QED BY <1>1, <1>3, <2>1 DEF TreeRecord
<1> HIDE DEF t
<1>5. ASSUME at'[h] = at[h], run'[h] = run[h], tree'[h] = t, starts' = starts, resumed' = resumed, product' = product, kind' = kind
      PROVE  TreeBounded(h)' /\ HarnessLocal(h)'
  <2>1. TreeBounded(h)'
    BY <1>1, <1>4, <1>5, LimitFields DEF TreeBounded, RootActive, TreeRecord, ControlledRunAssumption
  <2>2. Executing(h)' => Executing(h)
    BY <1>4, <1>5 DEF Executing
  <2>3. TreeSoFar(h)'
    BY <1>1, <1>2, <1>4, <1>5 DEF HarnessLocal, TreeSoFar
  <2>4. TreeInJob(h)'
    BY <1>1, <1>4, <1>5, <2>2 DEF HarnessLocal, TreeInJob, Busy
  <2>5. RunSoFar(h)'
    BY <1>1, <1>4, <1>5 DEF HarnessLocal, RunSoFar, Busy
  <2>6. Over(h)'
    <3>1. at[h] \in {"finally", "judge"} /\ Undisturbed(h) => ~run[h].started
      BY <1>1, <1>2 DEF HarnessLocal, Over, Executing
    <3> QED BY <1>1, <1>2, <1>5, <2>2, <3>1 DEF HarnessLocal, Over, Undisturbed
  <2>7. Stands(h)'
    BY <1>1, <1>2, <1>5 DEF HarnessLocal, Stands
  <2> QED BY <2>1, <2>3, <2>4, <2>5, <2>6, <2>7 DEF HarnessLocal
<1> QED BY <1>1, <1>2, <1>4, <1>5, QuietKeeps

\* Another process of the tree ends.
LEMMA KidExitsKeeps ==
  ASSUME ControlledRunAssumption, HarnessInv, NEW h \in Harnesses, KidExits(h)
  PROVE  HarnessInv'
<1>1. /\ run[h] \in RunRecord /\ tree[h] \in TreeRecord /\ TreeBounded(h) /\ HarnessLocal(h) /\ disk \subseteq Files
      /\ at[h] \in Labels
  BY HarnessTypes
<1> DEFINE t == [tree[h] EXCEPT !.kids = tree[h].kids - 1]
<1>2. /\ tree[h].kids > 0 /\ SetTree(h, t)
      /\ UNCHANGED <<kind, disk, product, cache, at, run, starts, resumed, cut>>
  BY DEF KidExits
<1>3. /\ t \in TreeRecord /\ t.root = tree[h].root /\ t.inJob = tree[h].inJob /\ t.kids = tree[h].kids - 1
      /\ t.total = tree[h].total /\ t.limitMsg = tree[h].limitMsg /\ t.job = tree[h].job /\ t.killed = tree[h].killed
  <2>1. t \in TreeRecord
    BY <1>1, <1>2 DEF TreeRecord
  <2> QED BY <1>1, <2>1 DEF TreeRecord
<1>4. Executing(h) /\ tree[h].kids \in Nat /\ t.kids \in Nat /\ tree[h].inJob
  BY <1>1, <1>2, <1>3 DEF Executing, TreeRecord, HarnessLocal, TreeInJob
<1> HIDE DEF t
<1>5. ASSUME at'[h] = at[h], run'[h] = run[h], tree'[h] = t, starts' = starts, resumed' = resumed, product' = product, kind' = kind
      PROVE  TreeBounded(h)' /\ HarnessLocal(h)'
  <2>1. TreeBounded(h)'
    <3>1. RootActive(h)' = RootActive(h) /\ RootActive(h) \in {0, 1}
      BY <1>3, <1>5 DEF RootActive
    <3> QED BY <1>1, <1>3, <1>4, <1>5, <3>1, LimitFields DEF TreeBounded, ControlledRunAssumption
  <2>2. TreeSoFar(h)'
    BY <1>1, <1>2, <1>3, <1>5 DEF HarnessLocal, TreeSoFar
  <2>3. TreeInJob(h)'
    <3>1. /\ <<h, starts[h]>> \in resumed /\ (tree[h].killed \/ (Busy(h) /\ tree[h].job))
          /\ Limit(kind) # 1
      BY <1>1, <1>2, <1>4 DEF HarnessLocal, TreeInJob
    <3> QED BY <1>3, <1>4, <1>5, <3>1 DEF TreeInJob, Busy
  <2>4. RunSoFar(h)'
    BY <1>1, <1>3, <1>5 DEF HarnessLocal, RunSoFar, Busy
  <2>5. Over(h)' /\ Stands(h)'
    BY <1>1, <1>2, <1>4, <1>5 DEF HarnessLocal, Over, Stands, Undisturbed
  <2> QED BY <2>1, <2>2, <2>3, <2>4, <2>5 DEF HarnessLocal
<1> QED BY <1>1, <1>2, <1>3, <1>5, QuietKeeps

\* The program writes its product, which no success has judged.
LEMMA ProduceKeeps ==
  ASSUME ControlledRunAssumption, HarnessInv, NEW h \in Harnesses, Produce(h)
  PROVE  HarnessInv'
<1>1. Executing(h) /\ UNCHANGED <<kind, disk, cache, at, run, tree, starts, resumed, cut>>
  BY DEF Produce
<1>2. product' \in [{"raw", "final"} -> {"none", "part", "whole"}]
  <2>1. product \in [{"raw", "final"} -> {"none", "part", "whole"}]
    BY DEF HarnessInv, HarnessTyped, HarnessTypeOK
  <2>2. \/ product' = [product EXCEPT !["raw"] = IF product["raw"] = "none" THEN "part" ELSE "whole"]
        \/ product' = [product EXCEPT !["final"] = product["raw"]]
    BY DEF Produce
  <2> QED BY <2>1, <2>2
<1>3. HarnessTyped'
  BY <1>1, <1>2 DEF HarnessInv, HarnessTyped, HarnessTypeOK, RootActive
<1>4. OneAttempt' /\ GhostsKnown'
  BY <1>1 DEF HarnessInv, OneAttempt, GhostsKnown, Markers, SmokeMarkers, BuildMarkers
<1>5. ASSUME NEW g \in Harnesses PROVE HarnessLocal(g)'
  <2>1. HarnessLocal(g) /\ HarnessLocal(h) /\ \A a, b \in resumed : a = b
    BY DEF HarnessInv, OneAttempt
  <2>2. run[g].outcome # "success"
    <3> SUFFICES ASSUME run[g].outcome = "success" PROVE FALSE
      OBVIOUS
    <3>1. <<g, starts[g]>> \in resumed /\ ~Executing(g)
      BY <2>1 DEF HarnessLocal, Stands, RunSoFar
    <3>2. <<h, starts[h]>> \in resumed
      BY <1>1, <2>1 DEF HarnessLocal, TreeInJob
    <3>3. g = h
      BY <2>1, <3>1, <3>2
    <3> QED BY <1>1, <3>1, <3>3
  <2> QED BY <1>1, <2>1, <2>2, OthersKeep
<1> QED BY <1>3, <1>4, <1>5 DEF HarnessInv

\* A step that writes none of the harnesses' state.
LEMMA HarnessUnmoved ==
  ASSUME HarnessInv, UNCHANGED <<kind, disk, product, at, run, tree, starts, resumed, cut>>, cache' \in BOOLEAN
  PROVE  HarnessInv'
<1>1. HarnessTyped'
  BY DEF HarnessInv, HarnessTyped, HarnessTypeOK, RootActive
<1>2. OneAttempt' /\ GhostsKnown'
  BY DEF HarnessInv, OneAttempt, GhostsKnown, Markers, SmokeMarkers, BuildMarkers
<1>3. ASSUME NEW g \in Harnesses PROVE HarnessLocal(g)'
  BY OthersKeep DEF HarnessInv
<1> QED BY <1>1, <1>2, <1>3 DEF HarnessInv

\* The first state satisfies the invariant.
LEMMA HarnessInvInit == ASSUME ControlledRunAssumption PROVE HarnessInit => HarnessInv
<1> SUFFICES ASSUME HarnessInit PROVE HarnessInv
  OBVIOUS
<1>0. kind \in Kinds
  BY DEF HarnessInit
<1>1. /\ at = [h \in Harnesses |-> "idle"] /\ run = [h \in Harnesses |-> NoRun] /\ tree = [h \in Harnesses |-> NoTree]
      /\ starts = [h \in Harnesses |-> 0] /\ resumed = {} /\ cut = {} /\ disk = {} /\ cache = TRUE
      /\ product = [raw |-> "none", final |-> "none"]
  BY DEF HarnessInit, NoProduct
<1>2. ASSUME NEW h \in Harnesses PROVE TreeBounded(h) /\ HarnessLocal(h)
  <2>1. at[h] = "idle" /\ run[h] = NoRun /\ tree[h] = NoTree /\ starts[h] = 0
    BY <1>1
  <2>2. TreeBounded(h)
    BY <1>0, <2>1, KindFields DEF TreeBounded, RootActive, NoTree, ControlledRunAssumption
  <2>3. HarnessLocal(h)
    BY <1>1, <2>1 DEF HarnessLocal, TreeSoFar, TreeInJob, RunSoFar, Over, Stands, Executing, Busy, NoTree, NoRun, Marked
  <2> QED BY <2>2, <2>3
<1>3. product \in [{"raw", "final"} -> {"none", "part", "whole"}]
  BY <1>1
<1>4. at \in [Harnesses -> Labels] /\ run \in [Harnesses -> RunRecord] /\ tree \in [Harnesses -> TreeRecord]
      /\ starts \in [Harnesses -> Nat]
  BY <1>1, EmptyRecords DEF Labels
<1>5. \A h \in Harnesses : /\ tree[h].root \in {"none", "suspended", "running", "exited"}
                           /\ run[h].outcome \in {"none", "refused", "success", "failure"}
  BY <1>4 DEF RunRecord, TreeRecord
<1>6. HarnessTyped
  BY <1>0, <1>1, <1>2, <1>3, <1>4, <1>5 DEF HarnessTyped, HarnessTypeOK, TreeBounded
<1>7. OneAttempt /\ GhostsKnown
  BY <1>1 DEF OneAttempt, GhostsKnown, Holding, Marked
<1> QED BY <1>2, <1>6, <1>7 DEF HarnessInv

\* Every step keeps the invariant.
LEMMA HarnessInvStep ==
  ASSUME ControlledRunAssumption, HarnessInv, [HarnessNext]_harnessVars
  PROVE  HarnessInv'
<1>1. CASE UNCHANGED harnessVars
  BY <1>1, HarnessUnmoved DEF harnessVars, HarnessInv, HarnessTyped, HarnessTypeOK
<1>2. CASE CacheChanges
  BY <1>2, HarnessUnmoved DEF CacheChanges
<1>3. ASSUME NEW h \in Harnesses, CheckSmoke(h) \/ CheckBuild(h) PROVE HarnessInv'
  <2>1. SmokeOccupied \in BOOLEAN /\ BuildOccupied \in BOOLEAN
    BY DEF SmokeOccupied, BuildOccupied
  <2> QED BY <1>3, <2>1, HarnessBeginKeeps DEF CheckSmoke, CheckBuild
<1>4. ASSUME NEW h \in Harnesses, HarnessStep(h) PROVE HarnessInv'
  <2>1. CASE \E k \in 1..Len(Markers) : Mark(h, k)
    BY <2>1, MarkKeeps
  <2>2. CASE CreateJob(h) \/ CreateProcess(h) \/ Assign(h) \/ Resume(h)
    BY <2>2, CreateJobKeeps, CreateProcessKeeps, AssignKeeps, ResumeKeeps
  <2>3. CASE WaitSmoke(h) \/ WaitBuild(h) \/ Account(h) \/ Timeout(h)
    BY <2>3, WaitsKeep
  <2>4. CASE Terminate(h) \/ CollectSmoke(h) \/ CollectBuild(h) \/ Finally(h)
    BY <2>4, TerminateKeeps, CollectKeeps, ClosingKeeps
  <2>5. CASE Judge(h)
    BY <2>5, JudgeKeeps
  <2>6. CASE ReportSmoke(h) \/ ReportBuild(h)
    <3>1. Creates("report") \in BOOLEAN
      BY DEF Creates
    <3> QED BY <2>6, <3>1, ReportKeeps DEF ReportSmoke, ReportBuild
  <2> QED BY <1>4, <2>1, <2>2, <2>3, <2>4, <2>5, <2>6 DEF HarnessStep
<1>5. ASSUME NEW h \in Harnesses, HarnessDies(h) \/ Spawn(h) \/ Produce(h) \/ RootExits(h) \/ KidExits(h)
      PROVE  HarnessInv'
  BY <1>5, ClosingKeeps, SpawnKeeps, ProduceKeeps, RootExitsKeeps, KidExitsKeeps
<1> QED BY <1>1, <1>2, <1>3, <1>4, <1>5 DEF HarnessNext

-----------------------------------------------------------------------------
(* The controlled runs: theorems.                                          *)

\* The inductive invariant of the controlled runs: the first marker lets one
\* harness through, once, and what executes was resumed by it inside its job.
THEOREM HarnessInvariant == ASSUME ControlledRunAssumption PROVE HarnessSpec => []HarnessInv
<1>1. HarnessInit => HarnessInv
  BY HarnessInvInit
<1>2. HarnessInv /\ [HarnessNext]_harnessVars => HarnessInv'
  BY HarnessInvStep
<1> QED BY <1>1, <1>2, PTL DEF HarnessSpec

\* The controlled build and smoke, for any number of harnesses, starts and
\* processes: the foreign program runs at most once, never outside a job that
\* a live harness holds, and a success is reported only for a program that
\* ended by itself and whole.
THEOREM HarnessSafe == ASSUME ControlledRunAssumption PROVE HarnessSpec => []HarnessSafety
<1>1. ASSUME HarnessInv PROVE HarnessSafety
  <2>1. RunsOnce
    <3>1. CASE resumed = {}
      BY <3>1, FS_EmptySet DEF RunsOnce
    <3>2. CASE resumed # {}
      <4>1. PICK a \in resumed : resumed = {a}
        BY <1>1, <3>2 DEF HarnessInv, OneAttempt
      <4>2. Cardinality({a}) = 1
        BY FS_Singleton
      <4> QED BY <4>1, <4>2 DEF RunsOnce
    <3> QED BY <3>1, <3>2
  <2>2. Contained
    BY <1>1 DEF HarnessInv, HarnessLocal, TreeInJob, Contained
  <2>3. SuccessIsSound
    BY <1>1 DEF HarnessInv, HarnessLocal, Stands, SuccessIsSound
  <2> QED BY <1>1, <2>1, <2>2, <2>3 DEF HarnessInv, HarnessTyped, HarnessSafety
<1> QED BY <1>1, HarnessInvariant, PTL

-----------------------------------------------------------------------------
(* The acquisition of tools.                                               *)

\* Directories that hold some of the two files, with contents from V.
FilesOf(V) == UNION {[D -> V] : D \in SUBSET FileNames}

\* The places of the commands, and the ends of the list of files left to do.
Extracting == {"look", "makedir", "write", "fill", "rename", "inspect"}
Acquiring == {"download", "publish", "audit1", "audit2"}
CommandPlaces == Rest \cup Acquiring \cup Extracting \cup {"copy", "validate"}
Todos == {FileOrder, <<"depends.dll">>, <<>>}
Locals == [part : Archives \cup {"none"}, staging : FilesOf({"good"}), todo : Todos]

FilesTyped ==
    /\ zip \in Archives \cup {"none"} /\ downloadAudit \in Archives \cup {"none"}
    /\ archiveAudit \in {"none", "review_required", "archive_rejected"}
    /\ extracted \in FilesOf({"good", "bad"}) /\ extraction \in BOOLEAN
    /\ parts \subseteq Operators \X (1..MaxCommands)
    /\ reported \in BOOLEAN

OperatorsTyped ==
    /\ place \in [Operators -> CommandPlaces] /\ own \in [Operators -> Locals]
    /\ begun \in [Operators -> 0..MaxCommands]

\* An archive lies in quarantine, and unless somebody exchanged it, it is a.
Holds(a) == zip # "none" /\ ("zip" \notin touched => zip = a)

\* What an operator may rely on between two file operations: the archive it
\* published is the one that lies there, its download audit is of it, and an
\* extraction goes on only over the reviewed archive.
OperatorKnows(o) ==
    /\ place[o] \notin Rest => begun[o] >= 1
    /\ place[o] \in {"publish", "audit1", "audit2"} => own[o].part \in Archives
    /\ place[o] \in {"audit1", "audit2"} => Holds(own[o].part)
    /\ place[o] = "audit2" => downloadAudit = own[o].part
    /\ place[o] \in Extracting => Holds("reviewed")
    /\ place[o] \in {"write", "fill", "rename", "inspect"} => extraction
    /\ place[o] = "rename" => own[o].todo # <<>>

\* What the files that lie there say of one another.
FilesAgree ==
    /\ downloadAudit # "none" => Holds(downloadAudit)
    /\ archiveAudit # "none" =>
         downloadAudit # "none" /\ archiveAudit = Verdict(downloadAudit)
    /\ reported \/ extraction => Holds("reviewed")
    /\ (DOMAIN extracted # {} \/ parts # {}) => extraction
    /\ "extraction" \notin touched => \A n \in DOMAIN extracted : extracted[n] = "good"
    /\ CacheIsReviewed

\* The inductive invariant.
AcquisitionInv ==
    FilesTyped /\ OperatorsTyped /\ FilesAgree /\ \A o \in Operators : OperatorKnows(o)

\* The facts about archives that the proof needs: "none" is not one.
LEMMA ArchiveNames == "none" \notin Archives /\ "reviewed" \in Archives
BY DEF Archives, Entries

\* The list of files is taken from its head to its end.
LEMMA TodoFacts ==
    /\ FileOrder # <<>> /\ <<"depends.dll">> # <<>>
    /\ \A q \in Todos : q # <<>> => Head(q) \in FileNames /\ Tail(q) \in Todos
BY DEF FileOrder, Todos, FileNames

\* The empty directory is one.
LEMMA EmptyDirectory ==
    /\ \A V : NoFiles \in FilesOf(V)
    /\ DOMAIN NoFiles = {}
<1>1. DOMAIN NoFiles = {}
  BY DEF NoFiles
<1>2. ASSUME NEW V PROVE NoFiles \in FilesOf(V)
  <2>1. NoFiles \in [{} -> V]
    BY DEF NoFiles
  <2> QED BY <2>1 DEF FilesOf
<1> QED BY <1>1, <1>2

\* A file that is added to a directory, or written over, leaves a directory.
LEMMA FilesGrow ==
    ASSUME NEW V, NEW f \in FilesOf(V), NEW n \in FileNames, NEW v \in V
    PROVE  [x \in DOMAIN f \cup {n} |-> IF x = n THEN v ELSE f[x]] \in FilesOf(V)
<1>1. PICK D \in SUBSET FileNames : f \in [D -> V]
  BY DEF FilesOf
<1>2. DOMAIN f = D
  BY <1>1
<1>3. [x \in D \cup {n} |-> IF x = n THEN v ELSE f[x]] \in [D \cup {n} -> V]
  BY <1>1
<1>4. D \cup {n} \in SUBSET FileNames
  OBVIOUS
<1> QED BY <1>2, <1>3, <1>4 DEF FilesOf

\* What somebody else may do to a file of the extraction leaves a directory.
LEMMA FilesTouched ==
    ASSUME NEW f \in FilesOf({"good", "bad"}), NEW n \in DOMAIN f
    PROVE  /\ [f EXCEPT ![n] = "bad"] \in FilesOf({"good", "bad"})
           /\ DOMAIN [f EXCEPT ![n] = "bad"] = DOMAIN f
           /\ [x \in DOMAIN f \ {n} |-> f[x]] \in FilesOf({"good", "bad"})
           /\ DOMAIN [x \in DOMAIN f \ {n} |-> f[x]] \subseteq DOMAIN f
<1>1. PICK D \in SUBSET FileNames : f \in [D -> {"good", "bad"}]
  BY DEF FilesOf
<1>2. DOMAIN f = D
  BY <1>1
<1>3. [f EXCEPT ![n] = "bad"] \in [D -> {"good", "bad"}]
  BY <1>1, <1>2
<1>4. [x \in D \ {n} |-> f[x]] \in [D \ {n} -> {"good", "bad"}]
  BY <1>1
<1>5. D \ {n} \in SUBSET FileNames
  OBVIOUS
<1> QED BY <1>2, <1>3, <1>4, <1>5 DEF FilesOf

\* The locals a command begins and ends with.
LEMMA NoLocalsTyped == NoLocals \in Locals
BY EmptyDirectory DEF NoLocals, Locals, Todos

\* What every step leaves to those who rely on it: an archive in quarantine
\* stays unless somebody exchanges it, and so do its audit and the directory.
Grows ==
    /\ zip # "none" => /\ zip' # "none"
                       /\ "zip" \notin touched' => "zip" \notin touched /\ zip' = zip
    /\ downloadAudit # "none" => downloadAudit' = downloadAudit
    /\ extraction => extraction'

\* A step of operator o: it goes to place l with locals v.
MovesTo(o, l, v) ==
    place' = [place EXCEPT ![o] = l] /\ own' = [own EXCEPT ![o] = v]

\* Types and the other operators, for a step that moves one operator.
LEMMA OperatorMoves ==
    ASSUME AcquisitionInv, NEW o \in Operators, NEW l \in CommandPlaces, NEW v \in Locals,
           MovesTo(o, l, v), Grows,
           begun' \in [Operators -> 0..MaxCommands],
           \A p \in Operators \ {o} : begun'[p] = begun[p]
    PROVE  /\ place' \in [Operators -> CommandPlaces] /\ own' \in [Operators -> Locals]
           /\ place'[o] = l /\ own'[o] = v
           /\ \A p \in Operators \ {o} : OperatorKnows(p)'
<1>1. /\ place' \in [Operators -> CommandPlaces] /\ own' \in [Operators -> Locals]
      /\ place'[o] = l /\ own'[o] = v
  BY DEF AcquisitionInv, OperatorsTyped, MovesTo
<1>2. ASSUME NEW p \in Operators \ {o} PROVE OperatorKnows(p)'
  <2>1. /\ place'[p] = place[p] /\ own'[p] = own[p] /\ begun'[p] = begun[p]
    BY DEF AcquisitionInv, OperatorsTyped, MovesTo
  <2>2. OperatorKnows(p)
    BY DEF AcquisitionInv, OperatorsTyped
  <2>3. \A a : Holds(a) => Holds(a)'
    BY DEF Holds, Grows
  <2>4. own[p].part \in Archives => own[p].part # "none"
    BY ArchiveNames
  <2> QED BY <2>1, <2>2, <2>3, <2>4 DEF OperatorKnows, Grows
<1> QED BY <1>1, <1>2

\* An operator at rest relies on nothing.
LEMMA RestKnowsNothing ==
    ASSUME NEW o \in Operators, place'[o] \in Rest PROVE OperatorKnows(o)'
BY DEF OperatorKnows, Rest, Extracting

\* A command that ends, completed or failed, or dies.
LEMMA OperatorEnds ==
    ASSUME AcquisitionInv, NEW o \in Operators, NEW c \in Rest, End(o, c), Grows,
           begun' \in [Operators -> 0..MaxCommands],
           \A p \in Operators \ {o} : begun'[p] = begun[p]
    PROVE  /\ place' \in [Operators -> CommandPlaces] /\ own' \in [Operators -> Locals]
           /\ \A p \in Operators : OperatorKnows(p)'
<1>1. MovesTo(o, c, NoLocals)
  BY DEF End, Proceed, MovesTo
<1>2. c \in CommandPlaces
  BY DEF CommandPlaces
<1>3. /\ place' \in [Operators -> CommandPlaces] /\ own' \in [Operators -> Locals]
      /\ place'[o] = c /\ \A p \in Operators \ {o} : OperatorKnows(p)'
  BY <1>1, <1>2, NoLocalsTyped, OperatorMoves
<1> QED BY <1>3, RestKnowsNothing

\* A command that goes on with its locals as they are.
LEMMA GoMoves ==
    ASSUME AcquisitionInv, NEW o \in Operators, NEW l, Go(o, l)
    PROVE  MovesTo(o, l, own[o]) /\ own[o] \in Locals
BY DEF AcquisitionInv, OperatorsTyped, Go, Proceed, MovesTo

\* A begin counts.
LEMMA BeginCounts ==
    ASSUME AcquisitionInv, AcquisitionAssumption, NEW o \in Operators, Begins(o)
    PROVE  /\ begun' \in [Operators -> 0..MaxCommands] /\ begun'[o] >= 1
           /\ \A p \in Operators \ {o} : begun'[p] = begun[p]
BY DEF AcquisitionInv, OperatorsTyped, AcquisitionAssumption, Begins

\* Every other step keeps the counts.
LEMMA SameCounts ==
    ASSUME AcquisitionInv, UNCHANGED begun
    PROVE  /\ begun' \in [Operators -> 0..MaxCommands]
           /\ \A p \in Operators : begun'[p] = begun[p]
BY DEF AcquisitionInv, OperatorsTyped

\* A step that leaves every file as it is.
LEMMA FilesUnchanged ==
    ASSUME AcquisitionInv, UNCHANGED <<quarantine, extractionDir, reported, published, touched>>
    PROVE  Grows /\ FilesAgree' /\ FilesTyped'
<1>1. /\ zip' = zip /\ downloadAudit' = downloadAudit /\ archiveAudit' = archiveAudit
      /\ extracted' = extracted /\ extraction' = extraction /\ parts' = parts
      /\ reported' = reported /\ published' = published /\ touched' = touched
  BY DEF quarantine, extractionDir
<1> QED BY <1>1 DEF AcquisitionInv, FilesTyped, Grows, FilesAgree, Holds, CacheIsReviewed

\* Steps of a command that change no file.
LEMMA BeginsKeep ==
    ASSUME AcquisitionInv, AcquisitionAssumption, NEW o \in Operators,
           AcquireBegin(o) \/ ExtractBegin(o) \/ StageBegin(o)
    PROVE  AcquisitionInv'
<1>0. /\ Begins(o) /\ UNCHANGED <<quarantine, extractionDir, reported, published, touched>>
  BY DEF AcquireBegin, ExtractBegin, StageBegin
<1>1. /\ begun' \in [Operators -> 0..MaxCommands] /\ begun'[o] >= 1
      /\ \A p \in Operators \ {o} : begun'[p] = begun[p]
  BY <1>0, BeginCounts
<1>2. Grows /\ FilesAgree' /\ FilesTyped'
  BY <1>0, FilesUnchanged
<1>3. ASSUME NEW c \in Rest, End(o, c) PROVE AcquisitionInv'
  BY <1>1, <1>2, <1>3, OperatorEnds DEF AcquisitionInv, OperatorsTyped
<1>4. CASE Go(o, "download")
  <2>1. "download" \in CommandPlaces
    BY DEF CommandPlaces, Acquiring
  <2>2. MovesTo(o, "download", own[o]) /\ own[o] \in Locals
    BY <1>4, GoMoves
  <2>3. /\ place' \in [Operators -> CommandPlaces] /\ own' \in [Operators -> Locals]
        /\ place'[o] = "download" /\ \A p \in Operators \ {o} : OperatorKnows(p)'
    BY <1>1, <1>2, <2>1, <2>2, OperatorMoves
  <2>4. OperatorKnows(o)'
    BY <1>1, <2>3 DEF OperatorKnows, Extracting
  <2> QED BY <1>1, <1>2, <2>3, <2>4 DEF AcquisitionInv, OperatorsTyped
<1>5. CASE IsReviewed /\ Go(o, "look")
  <2>1. "look" \in CommandPlaces
    BY DEF CommandPlaces, Extracting
  <2>2. MovesTo(o, "look", own[o]) /\ own[o] \in Locals
    BY <1>5, GoMoves
  <2>3. /\ place' \in [Operators -> CommandPlaces] /\ own' \in [Operators -> Locals]
        /\ place'[o] = "look" /\ \A p \in Operators \ {o} : OperatorKnows(p)'
    BY <1>1, <1>2, <2>1, <2>2, OperatorMoves
  <2>4. Holds("reviewed")'
    BY <1>0, <1>5 DEF IsReviewed, Holds, quarantine
  <2>5. OperatorKnows(o)'
    BY <1>1, <2>3, <2>4 DEF OperatorKnows
  <2> QED BY <1>1, <1>2, <2>3, <2>5 DEF AcquisitionInv, OperatorsTyped
<1>6. CASE /\ Proceed(o, "copy")
           /\ own' = [own EXCEPT ![o] = [NoLocals EXCEPT !.todo = FileOrder]]
  <2>1. "copy" \in CommandPlaces
    BY DEF CommandPlaces
  <2>2. [NoLocals EXCEPT !.todo = FileOrder] \in Locals
    BY EmptyDirectory DEF NoLocals, Locals, Todos
  <2>3. /\ place' \in [Operators -> CommandPlaces] /\ own' \in [Operators -> Locals]
        /\ place'[o] = "copy" /\ \A p \in Operators \ {o} : OperatorKnows(p)'
    BY <1>1, <1>2, <1>6, <2>1, <2>2, OperatorMoves DEF MovesTo, Proceed
  <2>4. OperatorKnows(o)'
    BY <1>1, <2>3 DEF OperatorKnows, Extracting
  <2> QED BY <1>1, <1>2, <2>3, <2>4 DEF AcquisitionInv, OperatorsTyped
<1>7. "failed" \in Rest /\ "completed" \in Rest
  BY DEF Rest
<1> QED BY <1>3, <1>4, <1>5, <1>6, <1>7 DEF AcquireBegin, ExtractBegin, StageBegin

\* A step within a command: what is left to show of it.
LEMMA WithinKeeps ==
    ASSUME AcquisitionInv, NEW o \in Operators, NEW l \in CommandPlaces, NEW v \in Locals,
           MovesTo(o, l, v), Grows, UNCHANGED begun, place[o] \notin Rest,
           FilesTyped', FilesAgree',
           (place'[o] = l /\ own'[o] = v /\ begun'[o] >= 1) => OperatorKnows(o)'
    PROVE  AcquisitionInv'
<1>1. /\ begun' \in [Operators -> 0..MaxCommands]
      /\ \A p \in Operators : begun'[p] = begun[p]
  BY SameCounts
<1>2. /\ place' \in [Operators -> CommandPlaces] /\ own' \in [Operators -> Locals]
      /\ place'[o] = l /\ own'[o] = v
      /\ \A p \in Operators \ {o} : OperatorKnows(p)'
  BY <1>1, OperatorMoves
<1>3. begun'[o] >= 1
  BY <1>1 DEF AcquisitionInv, OperatorKnows
<1> QED BY <1>1, <1>2, <1>3 DEF AcquisitionInv, OperatorsTyped

\* A command that ends before its time, or by its last step.
LEMMA EndsKeep ==
    ASSUME AcquisitionInv, NEW o \in Operators, NEW c \in Rest, End(o, c),
           UNCHANGED begun, Grows, FilesTyped', FilesAgree'
    PROVE  AcquisitionInv'
<1>1. /\ begun' \in [Operators -> 0..MaxCommands]
      /\ \A p \in Operators : begun'[p] = begun[p]
  BY SameCounts
<1>2. /\ place' \in [Operators -> CommandPlaces] /\ own' \in [Operators -> Locals]
      /\ \A p \in Operators : OperatorKnows(p)'
  BY <1>1, OperatorEnds
<1> QED BY <1>1, <1>2 DEF AcquisitionInv, OperatorsTyped

\* The two ends are places of rest, and no other is.
LEMMA PlaceFacts ==
    /\ "failed" \in Rest /\ "completed" \in Rest
    /\ \A l \in Acquiring \cup Extracting \cup {"copy", "validate"} :
          l \in CommandPlaces /\ l \notin Rest
BY DEF Rest, Acquiring, Extracting, CommandPlaces

\* The download into the command's own file.
LEMMA DownloadKeeps ==
    ASSUME AcquisitionInv, NEW o \in Operators, Download(o) PROVE AcquisitionInv'
<1>1. /\ place[o] = "download" /\ UNCHANGED begun
      /\ UNCHANGED <<quarantine, extractionDir, reported, published, touched>>
  BY DEF Download
<1>2. Grows /\ FilesAgree' /\ FilesTyped'
  BY <1>1, FilesUnchanged
<1>3. place[o] \notin Rest /\ "publish" \in CommandPlaces
  BY <1>1, PlaceFacts DEF Acquiring
<1>4. CASE End(o, "failed")
  BY <1>1, <1>2, <1>4, EndsKeep, PlaceFacts
<1>5. ASSUME NEW a \in Archives, own' = [own EXCEPT ![o].part = a], Proceed(o, "publish")
      PROVE  AcquisitionInv'
  <2> DEFINE v == [own[o] EXCEPT !.part = a]
  <2>1. own[o] \in Locals
    BY DEF AcquisitionInv, OperatorsTyped
  <2>2. v \in Locals /\ v.part = a
    BY <2>1 DEF Locals
  <2>3. MovesTo(o, "publish", v)
    BY <1>5 DEF MovesTo, Proceed
  <2>4. (place'[o] = "publish" /\ own'[o] = v /\ begun'[o] >= 1) => OperatorKnows(o)'
    BY <2>2 DEF OperatorKnows, Extracting
  <2> HIDE DEF v
  <2> QED BY <1>1, <1>2, <1>3, <2>2, <2>3, <2>4, WithinKeeps
<1> QED BY <1>4, <1>5 DEF Download

\* The rename into quarantine, which nobody can have taken.
LEMMA PublishZipKeeps ==
    ASSUME AcquisitionInv, NEW o \in Operators, PublishZip(o) PROVE AcquisitionInv'
<1>1. /\ place[o] = "publish" /\ UNCHANGED begun
      /\ downloadAudit' = downloadAudit /\ archiveAudit' = archiveAudit
      /\ extracted' = extracted /\ extraction' = extraction /\ parts' = parts
      /\ reported' = reported /\ published' = published /\ touched' = touched
  BY DEF PublishZip, extractionDir
<1>2. place[o] \notin Rest /\ "audit1" \in CommandPlaces
  BY <1>1, PlaceFacts DEF Acquiring
<1>3. CASE End(o, "failed") /\ UNCHANGED zip
  <2>1. UNCHANGED <<quarantine, extractionDir, reported, published, touched>>
    BY <1>1, <1>3 DEF quarantine, extractionDir
  <2> QED BY <1>1, <1>3, <2>1, FilesUnchanged, EndsKeep, PlaceFacts
<1>4. CASE zip = "none" /\ zip' = own[o].part /\ Go(o, "audit1")
  <2>1. MovesTo(o, "audit1", own[o]) /\ own[o] \in Locals
    BY <1>4, GoMoves
  <2>2. own[o].part \in Archives /\ own[o].part # "none"
    BY <1>1, ArchiveNames DEF AcquisitionInv, OperatorKnows
  <2>3. downloadAudit = "none" /\ ~reported /\ ~extraction
    BY <1>4 DEF AcquisitionInv, FilesAgree, Holds, FilesTyped
  <2>4. Grows
    BY <1>1, <1>4 DEF Grows
  <2>5. FilesTyped'
    BY <1>1, <1>4, <2>2 DEF AcquisitionInv, FilesTyped
  <2>6. FilesAgree'
    BY <1>1, <2>3 DEF AcquisitionInv, FilesAgree, CacheIsReviewed
  <2>7. Holds(own[o].part)'
    <3>1. Holds(own[o].part)' <=> (zip' # "none" /\ ("zip" \notin touched' => zip' = own'[o].part))
      BY DEF Holds
    <3>2. own' = own
      BY <1>4 DEF Go
    <3> QED BY <1>4, <2>2, <3>1, <3>2
  <2>8. (place'[o] = "audit1" /\ own'[o] = own[o] /\ begun'[o] >= 1) => OperatorKnows(o)'
    BY <2>2, <2>7 DEF OperatorKnows, Extracting
  <2> QED BY <1>1, <1>2, <2>1, <2>4, <2>5, <2>6, <2>8, WithinKeeps
<1> QED BY <1>3, <1>4 DEF PublishZip, MayPublish

\* The two audit files.
LEMMA AuditsKeep ==
    ASSUME AcquisitionInv, NEW o \in Operators, WriteDownloadAudit(o) \/ WriteArchiveAudit(o)
    PROVE  AcquisitionInv'
<1>1. /\ place[o] \in {"audit1", "audit2"} /\ UNCHANGED begun
      /\ zip' = zip /\ published' = published /\ touched' = touched
      /\ extracted' = extracted /\ extraction' = extraction /\ parts' = parts
      /\ reported' = reported
  BY DEF WriteDownloadAudit, WriteArchiveAudit, extractionDir
<1>2. place[o] \notin Rest /\ "audit2" \in CommandPlaces
  BY <1>1, PlaceFacts DEF Acquiring
<1>3. own[o].part \in Archives /\ own[o].part # "none" /\ Holds(own[o].part)
  BY <1>1, ArchiveNames DEF AcquisitionInv, OperatorKnows
<1>4. CASE End(o, "failed") /\ UNCHANGED <<downloadAudit, archiveAudit>>
  <2>1. UNCHANGED <<quarantine, extractionDir, reported, published, touched>>
    BY <1>1, <1>4 DEF quarantine, extractionDir
  <2> QED BY <1>1, <1>4, <2>1, FilesUnchanged, EndsKeep, PlaceFacts
<1>5. CASE /\ place[o] = "audit1" /\ downloadAudit = "none" /\ UNCHANGED archiveAudit
           /\ downloadAudit' = own[o].part /\ Go(o, "audit2")
  <2>1. MovesTo(o, "audit2", own[o]) /\ own[o] \in Locals
    BY <1>5, GoMoves
  <2>2. Grows
    BY <1>1, <1>5 DEF Grows
  <2>3. FilesTyped'
    BY <1>1, <1>3, <1>5 DEF AcquisitionInv, FilesTyped
  <2>4. archiveAudit = "none"
    BY <1>5 DEF AcquisitionInv, FilesAgree
  <2>5. Holds(downloadAudit)'
    BY <1>1, <1>3, <1>5 DEF Holds
  <2>6. FilesAgree'
    <3>1. /\ reported' \/ extraction' => Holds("reviewed")'
      BY <1>1 DEF AcquisitionInv, FilesAgree, Holds
    <3> QED BY <1>1, <1>5, <2>4, <2>5, <3>1 DEF AcquisitionInv, FilesAgree, CacheIsReviewed
  <2>7. own' = own
    BY <1>5 DEF Go
  <2>8. Holds(own[o].part)'
    BY <1>1, <1>3, <2>7 DEF Holds
  <2>9. (place'[o] = "audit2" /\ own'[o] = own[o] /\ begun'[o] >= 1) => OperatorKnows(o)'
    BY <1>3, <1>5, <2>7, <2>8 DEF OperatorKnows, Extracting
  <2> QED BY <1>1, <1>2, <2>1, <2>2, <2>3, <2>6, <2>9, WithinKeeps
<1>6. CASE /\ place[o] = "audit2" /\ archiveAudit = "none" /\ UNCHANGED downloadAudit
           /\ archiveAudit' = Verdict(own[o].part) /\ End(o, "completed")
  <2>1. Grows
    BY <1>1, <1>6 DEF Grows
  <2>2. downloadAudit = own[o].part
    BY <1>6 DEF AcquisitionInv, OperatorKnows
  <2>3. archiveAudit' \in {"review_required", "archive_rejected"}
    BY <1>6 DEF Verdict
  <2>4. FilesTyped'
    BY <1>1, <1>6, <2>3 DEF AcquisitionInv, FilesTyped
  <2>5. Verdict(downloadAudit)' = Verdict(own[o].part)
    BY <1>6, <2>2 DEF Verdict, SafeArchive
  <2>6. FilesAgree'
    <3>1. (reported' \/ extraction' => Holds("reviewed")')
            /\ (downloadAudit' # "none" => Holds(downloadAudit)')
      BY <1>1, <1>6 DEF AcquisitionInv, FilesAgree, Holds
    <3> QED BY <1>1, <1>3, <1>6, <2>2, <2>5, <3>1
            DEF AcquisitionInv, FilesAgree, CacheIsReviewed
  <2> QED BY <1>1, <1>6, <2>1, <2>4, <2>6, EndsKeep, PlaceFacts
<1> QED BY <1>1, <1>4, <1>5, <1>6 DEF WriteDownloadAudit, WriteArchiveAudit

\* Steps of an extraction that keep the extracted files.
LEMMA ExtractionStepsKeep ==
    ASSUME AcquisitionInv, AcquisitionAssumption, NEW o \in Operators,
           \/ LookForExtraction(o) \/ MakeExtraction(o)
           \/ LockExtraction(o) \/ FillTemporaries(o)
    PROVE  AcquisitionInv'
<1>1. /\ place[o] \in {"look", "makedir", "write", "fill"} /\ UNCHANGED begun
      /\ zip' = zip /\ downloadAudit' = downloadAudit /\ archiveAudit' = archiveAudit
      /\ extracted' = extracted /\ reported' = reported
      /\ published' = published /\ touched' = touched
  BY DEF LookForExtraction, MakeExtraction, LockExtraction, FillTemporaries, quarantine,
         extractionDir
<1>2. place[o] \notin Rest /\ {"makedir", "write", "fill", "rename", "inspect"} \subseteq CommandPlaces
  BY <1>1, PlaceFacts DEF Extracting
<1>3. Holds("reviewed") /\ Holds("reviewed")'
  BY <1>1 DEF AcquisitionInv, OperatorKnows, Extracting, Holds
<1>4. Run(o) \in Operators \X (1..MaxCommands)
  <2>1. begun[o] \in 0..MaxCommands /\ begun[o] >= 1
    BY <1>2 DEF AcquisitionInv, OperatorsTyped, OperatorKnows
  <2> QED BY <2>1 DEF Run, AcquisitionAssumption
<1>5. \/ extraction' = TRUE /\ parts' = parts
      \/ /\ extraction' = extraction
         /\ parts' = parts \/ parts' = parts \ {Run(o)}
            \/ (place[o] = "write" /\ parts' = parts \cup {Run(o)})
  BY DEF LookForExtraction, MakeExtraction, LockExtraction, FillTemporaries, Sweep,
         extractionDir
<1>6. extraction' \in BOOLEAN /\ (extraction => extraction')
      /\ parts' \subseteq Operators \X (1..MaxCommands)
      /\ (DOMAIN extracted' # {} \/ parts' # {} => extraction')
  BY <1>1, <1>4, <1>5 DEF AcquisitionInv, FilesTyped, FilesAgree, OperatorKnows
<1>7. Grows
  BY <1>1, <1>6 DEF Grows
<1>8. FilesTyped'
  BY <1>1, <1>6 DEF AcquisitionInv, FilesTyped
<1>9. FilesAgree'
  <2>1. downloadAudit' # "none" => Holds(downloadAudit)'
    BY <1>1 DEF AcquisitionInv, FilesAgree, Holds
  <2>2. archiveAudit' # "none" =>
          downloadAudit' # "none" /\ archiveAudit' = Verdict(downloadAudit)'
    BY <1>1 DEF AcquisitionInv, FilesAgree, Verdict, SafeArchive
  <2> QED BY <1>1, <1>3, <1>6, <2>1, <2>2 DEF AcquisitionInv, FilesAgree, CacheIsReviewed
<1>10. CASE End(o, "failed")
  BY <1>1, <1>7, <1>8, <1>9, <1>10, EndsKeep, PlaceFacts
<1>11. ASSUME NEW l \in {"makedir", "write", "fill", "inspect"}, Go(o, l),
              l # "makedir" => extraction'
       PROVE  AcquisitionInv'
  <2>1. MovesTo(o, l, own[o]) /\ own[o] \in Locals
    BY <1>11, GoMoves
  <2>2. (place'[o] = l /\ own'[o] = own[o] /\ begun'[o] >= 1) => OperatorKnows(o)'
    BY <1>3, <1>11 DEF OperatorKnows
  <2> QED BY <1>1, <1>2, <1>7, <1>8, <1>9, <2>1, <2>2, WithinKeeps
<1>12. CASE /\ place[o] = "fill" /\ own' = [own EXCEPT ![o].todo = FileOrder]
            /\ Proceed(o, "rename")
  <2> DEFINE v == [own[o] EXCEPT !.todo = FileOrder]
  <2>1. own[o] \in Locals
    BY DEF AcquisitionInv, OperatorsTyped
  <2>2. v \in Locals /\ v.todo # <<>>
    BY <2>1, TodoFacts DEF Locals, Todos
  <2>3. MovesTo(o, "rename", v)
    BY <1>12 DEF MovesTo, Proceed
  <2>4. extraction'
    BY <1>6, <1>12 DEF AcquisitionInv, OperatorKnows
  <2>5. (place'[o] = "rename" /\ own'[o] = v /\ begun'[o] >= 1) => OperatorKnows(o)'
    BY <1>3, <2>2, <2>4 DEF OperatorKnows
  <2> HIDE DEF v
  <2> QED BY <1>1, <1>2, <1>7, <1>8, <1>9, <2>2, <2>3, <2>5, WithinKeeps
<1>13. CASE LookForExtraction(o)
  BY <1>6, <1>10, <1>11, <1>13 DEF LookForExtraction
<1>14. CASE MakeExtraction(o)
  BY <1>10, <1>11, <1>14 DEF MakeExtraction
<1>15. CASE LockExtraction(o)
  <2>1. extraction'
    BY <1>6, <1>15 DEF LockExtraction, AcquisitionInv, OperatorKnows
  <2> QED BY <1>10, <1>11, <1>15, <2>1 DEF LockExtraction
<1>16. CASE FillTemporaries(o)
  BY <1>10, <1>12, <1>16 DEF FillTemporaries
<1> QED BY <1>13, <1>14, <1>15, <1>16

\* A verified file is renamed to its place, which is free.
LEMMA PlaceKeeps ==
    ASSUME AcquisitionInv, NEW o \in Operators, PlaceExtracted(o) PROVE AcquisitionInv'
<1> DEFINE n == Head(own[o].todo)
           rest == Tail(own[o].todo)
           v == [own[o] EXCEPT !.todo = rest]
<1>1. /\ place[o] = "rename" /\ UNCHANGED begun
      /\ zip' = zip /\ downloadAudit' = downloadAudit /\ archiveAudit' = archiveAudit
      /\ extraction' = extraction /\ reported' = reported
      /\ published' = published /\ touched' = touched
  BY DEF PlaceExtracted, quarantine
<1>2. place[o] \notin Rest /\ {"rename", "inspect"} \subseteq CommandPlaces
  BY <1>1, PlaceFacts DEF Extracting
<1>3. /\ Holds("reviewed") /\ Holds("reviewed")' /\ extraction
  BY <1>1 DEF AcquisitionInv, OperatorKnows, Extracting, Holds
<1>4. own[o] \in Locals /\ own[o].todo \in Todos /\ own[o].todo # <<>>
  BY <1>1 DEF AcquisitionInv, OperatorsTyped, OperatorKnows, Locals
<1>5. n \in FileNames /\ rest \in Todos
  BY <1>4, TodoFacts
<1>6. v \in Locals /\ v.todo = rest
  BY <1>4, <1>5 DEF Locals
<1>7. \/ End(o, "failed") /\ Sweep(o) /\ UNCHANGED extracted
      \/ /\ MayPlace(n)
         /\ extracted' = [x \in DOMAIN extracted \cup {n} |->
                             IF x = n THEN "good" ELSE extracted[x]]
         /\ own' = [own EXCEPT ![o].todo = rest]
         /\ IF rest = <<>> THEN Sweep(o) /\ Proceed(o, "inspect")
                           ELSE UNCHANGED <<parts, place>>
  BY DEF PlaceExtracted
<1> HIDE DEF n, rest
<1>8. parts' \subseteq parts
  BY <1>7 DEF Sweep
<1>9. /\ extracted' \in FilesOf({"good", "bad"})
      /\ "extraction" \notin touched => \A x \in DOMAIN extracted' : extracted'[x] = "good"
  <2>1. extracted \in FilesOf({"good", "bad"})
    BY DEF AcquisitionInv, FilesTyped
  <2>2. [x \in DOMAIN extracted \cup {n} |-> IF x = n THEN "good" ELSE extracted[x]]
           \in FilesOf({"good", "bad"})
    BY <1>5, <2>1, FilesGrow
  <2>3. "extraction" \notin touched => \A x \in DOMAIN extracted : extracted[x] = "good"
    BY DEF AcquisitionInv, FilesAgree
  <2> QED BY <1>7, <2>1, <2>2, <2>3
<1>10. Grows
  BY <1>1 DEF Grows
<1>11. FilesTyped'
  BY <1>1, <1>8, <1>9 DEF AcquisitionInv, FilesTyped
<1>12. FilesAgree'
  <2>1. downloadAudit' # "none" => Holds(downloadAudit)'
    BY <1>1 DEF AcquisitionInv, FilesAgree, Holds
  <2>2. archiveAudit' # "none" =>
          downloadAudit' # "none" /\ archiveAudit' = Verdict(downloadAudit)'
    BY <1>1 DEF AcquisitionInv, FilesAgree, Verdict, SafeArchive
  <2> QED BY <1>1, <1>3, <1>9, <2>1, <2>2 DEF AcquisitionInv, FilesAgree, CacheIsReviewed
<1>13. CASE End(o, "failed")
  BY <1>1, <1>10, <1>11, <1>12, <1>13, EndsKeep, PlaceFacts
<1>14. CASE rest = <<>> /\ own' = [own EXCEPT ![o].todo = rest] /\ Proceed(o, "inspect")
  <2>1. MovesTo(o, "inspect", v)
    BY <1>14 DEF MovesTo, Proceed
  <2>2. (place'[o] = "inspect" /\ own'[o] = v /\ begun'[o] >= 1) => OperatorKnows(o)'
    BY <1>1, <1>3 DEF OperatorKnows
  <2> HIDE DEF v
  <2> QED BY <1>1, <1>2, <1>6, <1>10, <1>11, <1>12, <2>1, <2>2, WithinKeeps
<1>15. CASE rest # <<>> /\ own' = [own EXCEPT ![o].todo = rest] /\ UNCHANGED place
  <2>1. MovesTo(o, "rename", v)
    BY <1>1, <1>15 DEF MovesTo, AcquisitionInv, OperatorsTyped
  <2>2. (place'[o] = "rename" /\ own'[o] = v /\ begun'[o] >= 1) => OperatorKnows(o)'
    BY <1>1, <1>3, <1>6, <1>15 DEF OperatorKnows
  <2> HIDE DEF v
  <2> QED BY <1>1, <1>2, <1>6, <1>10, <1>11, <1>12, <2>1, <2>2, WithinKeeps
<1> QED BY <1>7, <1>13, <1>14, <1>15

\* The report, the copies into the command's own directory, and its rename.
LEMMA ReportAndCacheKeep ==
    ASSUME AcquisitionInv, NEW o \in Operators,
           WriteReport(o) \/ CopyFile(o) \/ PublishCache(o) \/ ValidateCache(o)
    PROVE  AcquisitionInv'
<1>1. /\ place[o] \in {"inspect", "copy", "validate"} /\ UNCHANGED begun
      /\ zip' = zip /\ downloadAudit' = downloadAudit /\ archiveAudit' = archiveAudit
      /\ extracted' = extracted /\ extraction' = extraction /\ parts' = parts
      /\ touched' = touched
  BY DEF WriteReport, CopyFile, PublishCache, ValidateCache, quarantine, extractionDir
<1>2. place[o] \notin Rest /\ {"copy", "validate"} \subseteq CommandPlaces
  BY <1>1, PlaceFacts DEF Extracting
<1>3. reported' = reported \/ (place[o] = "inspect" /\ reported' = TRUE)
  BY DEF WriteReport, CopyFile, PublishCache, ValidateCache
<1>4. published' = published \/ Good(published)'
  <2>1. published' = published \/ (Good(own[o].staging) /\ published' = own[o].staging)
    BY DEF WriteReport, CopyFile, PublishCache, ValidateCache
  <2> QED BY <2>1 DEF Good
<1>5. Grows
  BY <1>1 DEF Grows
<1>6. FilesTyped'
  BY <1>1, <1>3 DEF AcquisitionInv, FilesTyped
<1>7. FilesAgree'
  <2>1. downloadAudit' # "none" => Holds(downloadAudit)'
    BY <1>1 DEF AcquisitionInv, FilesAgree, Holds
  <2>2. archiveAudit' # "none" =>
          downloadAudit' # "none" /\ archiveAudit' = Verdict(downloadAudit)'
    BY <1>1 DEF AcquisitionInv, FilesAgree, Verdict, SafeArchive
  <2>3. reported' \/ extraction' => Holds("reviewed")'
    BY <1>1, <1>3 DEF AcquisitionInv, FilesAgree, OperatorKnows, Extracting, Holds
  <2>4. CacheIsReviewed'
    BY <1>4 DEF AcquisitionInv, FilesAgree, CacheIsReviewed, Good
  <2> QED BY <1>1, <2>1, <2>2, <2>3, <2>4 DEF AcquisitionInv, FilesAgree
<1>8. ASSUME NEW c \in Rest, End(o, c) PROVE AcquisitionInv'
  BY <1>1, <1>5, <1>6, <1>7, <1>8, EndsKeep
<1>9. CASE CopyFile(o) /\ ~End(o, "failed")
  <2> DEFINE n == Head(own[o].todo)
             files == [x \in DOMAIN own[o].staging \cup {n} |->
                          IF x = n THEN extracted[n] ELSE own[o].staging[x]]
             v == [own[o] EXCEPT !.staging = files, !.todo = Tail(own[o].todo)]
  <2>1. /\ place[o] = "copy" /\ own[o].todo # <<>> /\ CopyOk(n) /\ UNCHANGED place
        /\ own' = [own EXCEPT ![o].staging = files, ![o].todo = Tail(@)]
    BY <1>9 DEF CopyFile
  <2>2. own[o] \in Locals /\ own[o].todo \in Todos /\ own[o].staging \in FilesOf({"good"})
    BY DEF AcquisitionInv, OperatorsTyped, Locals
  <2>3. n \in FileNames /\ Tail(own[o].todo) \in Todos
    BY <2>1, <2>2, TodoFacts
  <2>4. extracted[n] = "good"
    BY <2>1 DEF CopyOk
  <2>5. files \in FilesOf({"good"})
    <3> HIDE DEF n
    <3> QED BY <2>2, <2>3, <2>4, FilesGrow
  <2> HIDE DEF n, files
  <2>6. v \in Locals
    BY <2>2, <2>3, <2>5 DEF Locals
  <2>7. own' = [own EXCEPT ![o] = v]
    BY <2>1, <2>2 DEF AcquisitionInv, OperatorsTyped, Locals
  <2>8. MovesTo(o, "copy", v)
    BY <2>1, <2>7 DEF MovesTo, AcquisitionInv, OperatorsTyped
  <2>9. (place'[o] = "copy" /\ own'[o] = v /\ begun'[o] >= 1) => OperatorKnows(o)'
    BY DEF OperatorKnows, Extracting
  <2> HIDE DEF v
  <2> QED BY <1>1, <1>2, <1>5, <1>6, <1>7, <2>6, <2>8, <2>9, WithinKeeps
<1>10. CASE /\ PublishCache(o) /\ ~End(o, "failed")
  <2> DEFINE v == [own[o] EXCEPT !.staging = NoFiles]
  <2>1. own' = [own EXCEPT ![o].staging = NoFiles] /\ Proceed(o, "validate")
    BY <1>10 DEF PublishCache
  <2>2. own[o] \in Locals
    BY DEF AcquisitionInv, OperatorsTyped
  <2>3. v \in Locals
    BY <2>2, EmptyDirectory DEF Locals
  <2>4. MovesTo(o, "validate", v)
    BY <2>1 DEF MovesTo, Proceed
  <2>5. (place'[o] = "validate" /\ own'[o] = v /\ begun'[o] >= 1) => OperatorKnows(o)'
    BY DEF OperatorKnows, Extracting
  <2> HIDE DEF v
  <2> QED BY <1>1, <1>2, <1>5, <1>6, <1>7, <2>3, <2>4, <2>5, WithinKeeps
<1>11. CASE WriteReport(o) \/ ValidateCache(o)
  BY <1>8, <1>11, PlaceFacts DEF WriteReport, ValidateCache
<1> QED BY <1>8, <1>9, <1>10, <1>11, PlaceFacts

\* A command that dies leaves its files.
LEMMA OperatorDiesKeeps ==
    ASSUME AcquisitionInv, NEW o \in Operators, OperatorDies(o) PROVE AcquisitionInv'
<1>1. /\ End(o, "failed") /\ UNCHANGED begun
      /\ UNCHANGED <<quarantine, extractionDir, reported, published, touched>>
  BY DEF OperatorDies
<1> QED BY <1>1, FilesUnchanged, EndsKeep, PlaceFacts

\* Somebody else changes an extracted file or exchanges the archive.
LEMMA TouchesKeep ==
    ASSUME AcquisitionInv, TouchExtraction \/ TouchZip PROVE AcquisitionInv'
<1>1. /\ place' = place /\ own' = own /\ begun' = begun
      /\ downloadAudit' = downloadAudit /\ archiveAudit' = archiveAudit
      /\ extraction' = extraction /\ parts' = parts
      /\ reported' = reported /\ published' = published /\ touched \subseteq touched'
  BY DEF TouchExtraction, TouchZip, quarantine, extractionDir
<1>2. zip' = zip \/ ("zip" \in touched' /\ zip' \in Archives)
  BY DEF TouchExtraction, TouchZip, quarantine
<1>3. Grows
  BY <1>1, <1>2, ArchiveNames DEF Grows
<1>4. \A a : Holds(a) => Holds(a)'
  BY <1>3 DEF Grows, Holds
<1>5. /\ extracted' \in FilesOf({"good", "bad"})
      /\ DOMAIN extracted' \subseteq DOMAIN extracted
      /\ extracted' = extracted \/ "extraction" \in touched'
  <2>1. CASE TouchExtraction
    <3>1. PICK n \in DOMAIN extracted :
             \/ extracted' = [extracted EXCEPT ![n] = "bad"]
             \/ extracted' = [x \in DOMAIN extracted \ {n} |-> extracted[x]]
      BY <2>1 DEF TouchExtraction
    <3>2. extracted \in FilesOf({"good", "bad"})
      BY DEF AcquisitionInv, FilesTyped
    <3>3. /\ [extracted EXCEPT ![n] = "bad"] \in FilesOf({"good", "bad"})
          /\ DOMAIN [extracted EXCEPT ![n] = "bad"] = DOMAIN extracted
          /\ [x \in DOMAIN extracted \ {n} |-> extracted[x]] \in FilesOf({"good", "bad"})
          /\ DOMAIN [x \in DOMAIN extracted \ {n} |-> extracted[x]] \subseteq DOMAIN extracted
      BY <3>2, FilesTouched
    <3>4. "extraction" \in touched'
      BY <2>1 DEF TouchExtraction
    <3> QED BY <3>1, <3>3, <3>4
  <2>2. CASE TouchZip
    BY <2>2 DEF TouchZip, extractionDir, AcquisitionInv, FilesTyped
  <2> QED BY <2>1, <2>2
<1>6. FilesTyped'
  BY <1>1, <1>2, <1>5 DEF AcquisitionInv, FilesTyped
<1>7. FilesAgree'
  <2>1. downloadAudit' # "none" => Holds(downloadAudit)'
    <3>1. downloadAudit # "none" => Holds(downloadAudit)
      BY DEF AcquisitionInv, FilesAgree
    <3> QED BY <1>1, <1>3, <3>1 DEF Grows, Holds
  <2>2. archiveAudit' # "none" =>
          downloadAudit' # "none" /\ archiveAudit' = Verdict(downloadAudit)'
    BY <1>1 DEF AcquisitionInv, FilesAgree, Verdict, SafeArchive
  <2> QED BY <1>1, <1>4, <1>5, <2>1, <2>2 DEF AcquisitionInv, FilesAgree, CacheIsReviewed
<1>8. ASSUME NEW p \in Operators PROVE OperatorKnows(p)'
  <2>1. OperatorKnows(p)
    BY DEF AcquisitionInv
  <2>2. Holds(own[p].part) => Holds(own[p].part)'
    BY <1>1, <1>3 DEF Grows, Holds
  <2> QED BY <1>1, <1>4, <2>1, <2>2 DEF OperatorKnows
<1>9. OperatorsTyped'
  BY <1>1 DEF AcquisitionInv, OperatorsTyped
<1> QED BY <1>6, <1>7, <1>8, <1>9 DEF AcquisitionInv

\* Nothing has been acquired at the beginning.
LEMMA AcquisitionInvInit ==
    ASSUME AcquisitionAssumption PROVE AcquisitionInit => AcquisitionInv
<1> SUFFICES ASSUME AcquisitionInit PROVE AcquisitionInv
  OBVIOUS
<1>1. FilesTyped
  BY EmptyDirectory DEF AcquisitionInit, FilesTyped
<1>2. "idle" \in Rest /\ "idle" \in CommandPlaces
  BY DEF Rest, CommandPlaces
<1>3. OperatorsTyped
  BY <1>2, NoLocalsTyped DEF AcquisitionInit, OperatorsTyped, AcquisitionAssumption
<1>4. FilesAgree
  BY EmptyDirectory DEF AcquisitionInit, FilesAgree, CacheIsReviewed
<1>5. \A o \in Operators : OperatorKnows(o)
  BY <1>2 DEF AcquisitionInit, OperatorKnows, Extracting
<1> QED BY <1>1, <1>3, <1>4, <1>5 DEF AcquisitionInv

\* Every step keeps the invariant.
LEMMA AcquisitionInvStep ==
    ASSUME AcquisitionAssumption
    PROVE  AcquisitionInv /\ [AcquisitionNext]_acquisitionVars => AcquisitionInv'
<1> SUFFICES ASSUME AcquisitionInv, [AcquisitionNext]_acquisitionVars PROVE AcquisitionInv'
  OBVIOUS
<1>1. CASE UNCHANGED acquisitionVars
  <2>1. /\ UNCHANGED <<quarantine, extractionDir, reported, published, touched>>
        /\ place' = place /\ own' = own /\ begun' = begun
    BY <1>1 DEF acquisitionVars
  <2>2. Grows /\ FilesAgree' /\ FilesTyped'
    BY <2>1, FilesUnchanged
  <2>3. zip' = zip /\ touched' = touched /\ downloadAudit' = downloadAudit
        /\ extraction' = extraction
    BY <2>1 DEF quarantine, extractionDir
  <2>4. OperatorsTyped' /\ \A p \in Operators : OperatorKnows(p)'
    BY <2>1, <2>3 DEF AcquisitionInv, OperatorsTyped, OperatorKnows, Holds
  <2> QED BY <2>2, <2>4 DEF AcquisitionInv
<1>2. CASE TouchExtraction \/ TouchZip
  BY <1>2, TouchesKeep
<1>3. ASSUME NEW o \in Operators,
             \/ AcquireBegin(o) \/ Download(o) \/ PublishZip(o)
             \/ WriteDownloadAudit(o) \/ WriteArchiveAudit(o)
             \/ ExtractBegin(o) \/ LookForExtraction(o) \/ MakeExtraction(o)
             \/ LockExtraction(o) \/ FillTemporaries(o)
             \/ PlaceExtracted(o) \/ WriteReport(o)
             \/ StageBegin(o) \/ CopyFile(o) \/ PublishCache(o) \/ ValidateCache(o)
             \/ OperatorDies(o)
      PROVE  AcquisitionInv'
  BY <1>3, BeginsKeep, DownloadKeeps, PublishZipKeeps, AuditsKeep, ExtractionStepsKeep,
     PlaceKeeps, ReportAndCacheKeep, OperatorDiesKeeps
<1> QED BY <1>1, <1>2, <1>3 DEF AcquisitionNext

\* The invariant holds for any number of operators and commands.
THEOREM AcquisitionInvariant ==
    ASSUME AcquisitionAssumption PROVE AcquisitionSpec => []AcquisitionInv
<1>1. AcquisitionInit => AcquisitionInv
  BY AcquisitionInvInit
<1>2. AcquisitionInv /\ [AcquisitionNext]_acquisitionVars => AcquisitionInv'
  BY AcquisitionInvStep
<1> QED BY <1>1, <1>2, PTL DEF AcquisitionSpec

\* However many operators acquire, extract and stage at once, fail and die,
\* and whatever the server sends or somebody exchanges: the audits are of the
\* archive that lies there, only reviewed bytes are extracted, and the cache
\* is the whole reviewed program or nothing.
THEOREM InputsReviewed ==
    ASSUME AcquisitionAssumption PROVE AcquisitionSpec => []ReviewedInputs
<1>1. ASSUME AcquisitionInv PROVE ReviewedInputs
  <2>1. DOMAIN extracted \subseteq FileNames
    BY <1>1 DEF AcquisitionInv, FilesTyped, FilesOf
  <2>2. CacheIsReviewed /\ DOMAIN published \subseteq FileNames
    BY <1>1, EmptyDirectory DEF AcquisitionInv, FilesAgree, CacheIsReviewed, Good
  <2>3. AcquisitionTypeOK
    BY <1>1, <2>1, <2>2 DEF AcquisitionInv, FilesTyped, FilesAgree, AcquisitionTypeOK
  <2>4. AuditsDescribeZip
    BY <1>1 DEF AcquisitionInv, FilesAgree, Holds, AuditsDescribeZip
  <2>5. ExtractedIsReviewed
    BY <1>1 DEF AcquisitionInv, FilesAgree, Holds, ExtractedIsReviewed
  <2> QED BY <2>2, <2>3, <2>4, <2>5 DEF ReviewedInputs
<1> QED BY <1>1, AcquisitionInvariant, PTL

\* What is in place stays as it was placed: no command, overlapping or later,
\* replaces an archive, an audit, a report or a published cache.
THEOREM AcquiredIsKept ==
    ASSUME AcquisitionAssumption
    PROVE  AcquisitionSpec => [][NothingIsReplaced]_acquisitionVars
<1>1. ASSUME [AcquisitionNext]_acquisitionVars PROVE [NothingIsReplaced]_acquisitionVars
  <2>1. CASE UNCHANGED acquisitionVars
    BY <2>1
  <2>2. CASE TouchExtraction \/ TouchZip
    BY <2>2 DEF TouchExtraction, TouchZip, NothingIsReplaced, quarantine, extractionDir
  <2>3. ASSUME NEW o \in Operators,
               AcquireBegin(o) \/ Download(o) \/ PublishZip(o)
                 \/ WriteDownloadAudit(o) \/ WriteArchiveAudit(o)
        PROVE  NothingIsReplaced
    BY <2>3 DEF AcquireBegin, Download, PublishZip, MayPublish, WriteDownloadAudit,
                WriteArchiveAudit, NothingIsReplaced, quarantine, extractionDir
  <2>4. ASSUME NEW o \in Operators,
               \/ ExtractBegin(o) \/ LookForExtraction(o) \/ MakeExtraction(o)
               \/ LockExtraction(o) \/ FillTemporaries(o)
               \/ PlaceExtracted(o) \/ WriteReport(o)
        PROVE  NothingIsReplaced
    BY <2>4 DEF ExtractBegin, LookForExtraction, MakeExtraction, LockExtraction,
                FillTemporaries, PlaceExtracted, WriteReport, NothingIsReplaced, quarantine
  <2>5. ASSUME NEW o \in Operators,
               \/ StageBegin(o) \/ CopyFile(o) \/ PublishCache(o) \/ ValidateCache(o)
               \/ OperatorDies(o)
        PROVE  NothingIsReplaced
    BY <2>5 DEF StageBegin, CopyFile, PublishCache, ValidateCache, OperatorDies,
                NothingIsReplaced, quarantine
  <2> QED BY <1>1, <2>1, <2>2, <2>3, <2>4, <2>5 DEF AcquisitionNext
<1> QED BY <1>1, PTL DEF AcquisitionSpec
==============================================================================
