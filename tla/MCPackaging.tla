---------------------------- MODULE MCPackaging -----------------------------
(***************************************************************************)
(* The packaging tools for TLC: the archivers, the timeline probe, the     *)
(* controlled runs, the dry-run workspace, the acquisition of tools and    *)
(* the manual verification of a Provider. They are separate programs that  *)
(* share no state, so a behaviour is about one of them, chosen in the      *)
(* initial state; the variables of the others are not used, and those of   *)
(* the archivers, the controlled runs and the acquisition stay as they     *)
(* begin.                                                                  *)
(***************************************************************************)
EXTENDS TransactionalArchive, ControlledRun, ToolAcquisition, Naturals

VARIABLES
  part,  \* the component this behaviour is about
  \* TimelineProbe
  probePc, life, phase, rev, probeCode, registered, ownerState, fallback,
  status, tr, probeLost, probeLate, control, ownerFile, op, aborted, proc,
  value, toggles,
  \* DryRunWorkspace
  ws, protected, snapshot, workspacePc, seen, todo, workspaceRuns,
  workspaceCode, start,
  \* ManualVerification
  scriptTarget, expected, scriptLost, read, scriptPc, stage, goal, cleaning,
  clients, current, stream, result, sent, passed, scriptCode, cleaned,
  limitHit, closeFailed, timedOut, exit, opened, touches, scriptLate,
  storeFaults, closeFaults, foreign

\* The commands the probe's operators run: all phases and, of a second
\* operator, one command in between.
OneOperator == [o \in {"o1"} |-> 6]
TwoOperators == [o \in {"o1", "o2"} |-> IF o = "o1" THEN 6 ELSE 1]

Attempt == INSTANCE TransactionalArchive WITH
  Programs <- {"attempt"}, MaxRuns <- 2, MaxVersion <- 2, Intruder <- TRUE

Probe == INSTANCE TimelineProbe WITH
  MaxCommands <- TwoOperators, RuntimePhases <- 1, MaxAhead <- 1,
  MaxToggles <- 1, Releases <- FALSE, Expires <- FALSE, Aborts <- TRUE,
  pc <- probePc, code <- probeCode, lost <- probeLost, late <- probeLate

Value == INSTANCE TimelineProbe WITH
  MaxCommands <- OneOperator, RuntimePhases <- 1, MaxAhead <- 1,
  MaxToggles <- 3, Releases <- TRUE, Expires <- FALSE, Aborts <- FALSE,
  pc <- probePc, code <- probeCode, lost <- probeLost, late <- probeLate

Workspace == INSTANCE DryRunWorkspace WITH
  Sessions <- {"s1", "s2"}, MaxRuns <- 2, MaxChanges <- 1, pc <- workspacePc,
  runs <- workspaceRuns, code <- workspaceCode

OpenAI == INSTANCE ManualVerification WITH
  Kind <- "openai", Foreigns <- {"f1", "f2"}, MaxStoreFaults <- 1,
  MaxCloseFaults <- 2, target <- scriptTarget, lost <- scriptLost,
  pc <- scriptPc, code <- scriptCode, late <- scriptLate

DeepSeek == INSTANCE ManualVerification WITH
  Kind <- "deepseek", Foreigns <- {"f1", "f2"}, MaxStoreFaults <- 1,
  MaxCloseFaults <- 2, target <- scriptTarget, lost <- scriptLost,
  pc <- scriptPc, code <- scriptCode, late <- scriptLate

\* What each component assumes of its constants.
ASSUME PackagingAssumption ==
  /\ ArchiveAssumption
  /\ Attempt!ArchiveAssumption
  /\ Probe!ProbeAssumption
  /\ Value!ProbeAssumption
  /\ ControlledRunAssumption
  /\ Workspace!DryRunAssumption
  /\ AcquisitionAssumption
  /\ OpenAI!VerificationAssumption
  /\ DeepSeek!VerificationAssumption

\* The value of the variables of the components a behaviour is not about.
Unused == "unused"

\* TransactionalArchive rests in its initial state in the behaviours of the others.
ArchiveUnused == Init /\ source = None

ProbeUnused ==
  /\ probePc = Unused /\ life = Unused /\ phase = Unused /\ rev = Unused
  /\ probeCode = Unused /\ registered = Unused /\ ownerState = Unused
  /\ fallback = Unused /\ status = Unused /\ tr = Unused /\ probeLost = Unused
  /\ probeLate = Unused /\ control = Unused /\ ownerFile = Unused
  /\ op = Unused /\ aborted = Unused /\ proc = Unused /\ value = Unused
  /\ toggles = Unused

\* ControlledRun rests in its initial state in the behaviours of the others.
ControlledUnused == HarnessInit /\ kind = "build"

WorkspaceUnused ==
  /\ ws = Unused /\ protected = Unused /\ snapshot = Unused
  /\ workspacePc = Unused /\ seen = Unused /\ todo = Unused
  /\ workspaceRuns = Unused /\ workspaceCode = Unused /\ start = Unused

\* ToolAcquisition rests in its initial state in the behaviours of the others.
ToolsUnused == AcquisitionInit

ScriptUnused ==
  /\ scriptTarget = Unused /\ expected = Unused /\ scriptLost = Unused
  /\ read = Unused /\ scriptPc = Unused /\ stage = Unused /\ goal = Unused
  /\ cleaning = Unused /\ clients = Unused /\ current = Unused
  /\ stream = Unused /\ result = Unused /\ sent = Unused /\ passed = Unused
  /\ scriptCode = Unused /\ cleaned = Unused /\ limitHit = Unused
  /\ closeFailed = Unused /\ timedOut = Unused /\ exit = Unused
  /\ opened = Unused /\ touches = Unused /\ scriptLate = Unused
  /\ storeFaults = Unused /\ closeFaults = Unused /\ foreign = Unused

archiveVars ==
  <<pc, prog, runs, source, partial, archive, old, staging, stale, target,
    incident, snap, moved, root, back, hit, report, live>>

probeVars ==
  <<probePc, life, phase, rev, probeCode, registered, ownerState, fallback,
    status, tr, probeLost, probeLate, control, ownerFile, op, aborted, proc,
    value, toggles>>

controlledVars ==
  <<kind, disk, product, cache, at, run, tree, starts, resumed, cut>>

workspaceVars ==
  <<ws, protected, snapshot, workspacePc, seen, todo, workspaceRuns,
    workspaceCode, start>>

toolsVars ==
  <<zip, downloadAudit, archiveAudit, extracted, extraction, parts, reported,
    published, place, own, begun, touched>>

scriptVars ==
  <<scriptTarget, expected, scriptLost, read, scriptPc, stage, goal, cleaning,
    clients, current, stream, result, sent, passed, scriptCode, cleaned,
    limitHit, closeFailed, timedOut, exit, opened, touches, scriptLate,
    storeFaults, closeFaults, foreign>>

AllInit ==
  \/ part = "archive" /\ Init
     /\ ProbeUnused /\ ControlledUnused /\ WorkspaceUnused /\ ToolsUnused
     /\ ScriptUnused
  \/ part = "attempt" /\ Attempt!Init
     /\ ProbeUnused /\ ControlledUnused /\ WorkspaceUnused /\ ToolsUnused
     /\ ScriptUnused
  \/ part = "probe" /\ Probe!Init
     /\ ArchiveUnused /\ ControlledUnused /\ WorkspaceUnused /\ ToolsUnused
     /\ ScriptUnused
  \/ part = "value" /\ Value!Init
     /\ ArchiveUnused /\ ControlledUnused /\ WorkspaceUnused /\ ToolsUnused
     /\ ScriptUnused
  \/ part = "harness" /\ HarnessInit
     /\ ArchiveUnused /\ ProbeUnused /\ WorkspaceUnused /\ ToolsUnused
     /\ ScriptUnused
  \/ part = "workspace" /\ Workspace!Init
     /\ ArchiveUnused /\ ProbeUnused /\ ControlledUnused /\ ToolsUnused
     /\ ScriptUnused
  \/ part = "tools" /\ AcquisitionInit
     /\ ArchiveUnused /\ ProbeUnused /\ ControlledUnused /\ WorkspaceUnused
     /\ ScriptUnused
  \/ part = "openai" /\ OpenAI!Init
     /\ ArchiveUnused /\ ProbeUnused /\ ControlledUnused /\ WorkspaceUnused
     /\ ToolsUnused
  \/ part = "deepseek" /\ DeepSeek!Init
     /\ ArchiveUnused /\ ProbeUnused /\ ControlledUnused /\ WorkspaceUnused
     /\ ToolsUnused

ArchiveNext ==
  /\ part = "archive" /\ Next
  /\ UNCHANGED <<part, probeVars, controlledVars, workspaceVars, toolsVars,
                scriptVars>>

AttemptNext ==
  /\ part = "attempt" /\ Attempt!Next
  /\ UNCHANGED <<part, probeVars, controlledVars, workspaceVars, toolsVars,
                scriptVars>>

ProbeNext ==
  /\ part = "probe" /\ Probe!Next
  /\ UNCHANGED <<part, archiveVars, controlledVars, workspaceVars, toolsVars,
                scriptVars>>

ValueNext ==
  /\ part = "value" /\ Value!Next
  /\ UNCHANGED <<part, archiveVars, controlledVars, workspaceVars, toolsVars,
                scriptVars>>

ControlledNext ==
  /\ part = "harness" /\ HarnessNext
  /\ UNCHANGED <<part, archiveVars, probeVars, workspaceVars, toolsVars,
                scriptVars>>

WorkspaceNext ==
  /\ part = "workspace" /\ Workspace!Next
  /\ UNCHANGED <<part, archiveVars, probeVars, controlledVars, toolsVars,
                scriptVars>>

ToolsNext ==
  /\ part = "tools" /\ AcquisitionNext
  /\ UNCHANGED <<part, archiveVars, probeVars, controlledVars, workspaceVars,
                scriptVars>>

OpenAINext ==
  /\ part = "openai" /\ OpenAI!Next
  /\ UNCHANGED <<part, archiveVars, probeVars, controlledVars, workspaceVars,
                toolsVars>>

DeepSeekNext ==
  /\ part = "deepseek" /\ DeepSeek!Next
  /\ UNCHANGED <<part, archiveVars, probeVars, controlledVars, workspaceVars,
                toolsVars>>

AllNext ==
  \/ ArchiveNext \/ AttemptNext \/ ProbeNext \/ ValueNext \/ ControlledNext
  \/ WorkspaceNext \/ ToolsNext \/ OpenAINext \/ DeepSeekNext

allVars == <<part, archiveVars, probeVars, controlledVars, workspaceVars,
           toolsVars, scriptVars>>

AllSpec == AllInit /\ [][AllNext]_allVars

-----------------------------------------------------------------------------
(* Properties.                                                             *)

\* The timeline probe: a verified timeline was earned phase by phase by an
\* Owner that really ended, also when commands overlap or the value comes and
\* goes, and an abort that no other command overwrites is final.
ProbeVerdict ==
  /\ part = "probe" => /\ Probe!TypeOK /\ Probe!EndIsNeverGuessed
                       /\ Probe!AbortIsFinal
                       /\ Probe!VerifiedOwnerEnded /\ Probe!VerifiedIsEarned
  /\ part = "value" => /\ Value!EndIsNeverGuessed
                       /\ Value!VerifiedOwnerEnded /\ Value!VerifiedIsEarned

\* The manual verification: only keys of the run are sent, exit code 0 means
\* that the whole plan ran, and the test key does not stay behind.
KeySafety ==
  /\ part = "openai" => /\ OpenAI!TypeOK /\ OpenAI!OnlyOwnKeysAreSent
                        /\ OpenAI!SuccessIsSound /\ OpenAI!KeyIsRemoved
  /\ part = "deepseek" => /\ DeepSeek!TypeOK /\ DeepSeek!OnlyOwnKeysAreSent
                          /\ DeepSeek!SuccessIsSound /\ DeepSeek!KeyIsRemoved

\* No step destroys or misreports evidence: archivers restore what they say
\* they restored and report leftovers, a deployment runs on its own session's
\* input, changed workspaces and unknown files stay, nothing acquired is
\* replaced, and a run that lost its credential slot leaves the foreign value
\* alone.
EvidenceIsKept ==
  [][/\ part = "archive" => /\ RestoredIsTrue /\ LeftoverIsReported
                            /\ RollbackRestores
     /\ part = "attempt" => Attempt!RollbackRestores
     /\ part = "workspace" => /\ Workspace!TypeOK /\ Workspace!DeployReadsItsOwn
                              /\ Workspace!ChangeIsEvidence /\ Workspace!UnknownIsPreserved
     /\ part = "tools" => NothingIsReplaced
     /\ part = "openai" => /\ OpenAI!NothingAfterLoss /\ OpenAI!ForeignValueSurvives
                           /\ OpenAI!OldClientsAreClosed
     /\ part = "deepseek" => /\ DeepSeek!NothingAfterLoss /\ DeepSeek!ForeignValueSurvives
                             /\ DeepSeek!OldClientsAreClosed]_allVars
=============================================================================
