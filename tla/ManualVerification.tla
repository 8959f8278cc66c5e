------------------------- MODULE ManualVerification -------------------------
(***************************************************************************)
(* The two entry points that verify a Provider against the real service:   *)
(* scripts/manual_openai_verification.py (Kind = "openai") and             *)
(* scripts/manual_deepseek_verification.py (Kind = "deepseek").  Each      *)
(* writes a test key into one fixed slot of the credential manager, sends  *)
(* a bounded plan of requests while it rotates and deletes that key, closes*)
(* everything and empties the slot.  Other programs write to the same slot *)
(* at any moment, its calls fail, the service answers what it likes, and   *)
(* the cooperative timeout may cancel the run at any await.                *)
(***************************************************************************)
EXTENDS Naturals, Sequences, FiniteSets

CONSTANTS Kind, Foreigns, MaxStoreFaults, MaxCloseFaults

\* What the constants must satisfy.
VerificationAssumption ==
    /\ Kind \in {"openai", "deepseek"}
    /\ MaxStoreFaults \in Nat /\ MaxCloseFaults \in Nat

VARIABLES target,       \* what the slot holds
          expected, lost,  \* OwnedTestSecretStore: fingerprint, ownership_lost
          read,         \* what the last read of the slot returned
          pc, stage,    \* the place in the plan
          goal,         \* the value being written
          cleaning,     \* in the cleanup of the finally block
          clients,      \* audit.clients: key and closed
          current,      \* the Provider's client, 0 when it has none
          stream,       \* the Provider's stream: "none", "active", "pending"
          result,       \* what the request in progress comes to
          sent,         \* ghost: the keys of the requests made
          passed,       \* the stages whose checks are all true
          code, cleaned, \* checks.safe_code, checks.target_cleanup_succeeded
          limitHit, closeFailed,  \* the audit's flags
          timedOut,     \* the cooperative timeout: "no", "cancelled", or "swallowed"
                        \* by a handler that expected a cancellation of its own
          exit,         \* the exit code, 1 while it runs
          opened, touches, late, \* ghosts: slot when the operation began, writes
                        \* and deletes made, cancelled inside the finally block
          storeFaults, closeFaults, foreign

slot == <<target, expected, lost, read>>
provider == <<clients, current, stream>>
audit == <<sent, limitHit, closeFailed>>
verdict == <<passed, code, cleaned, timedOut, exit>>
ghosts == <<opened, touches, late>>
bounds == <<storeFaults, closeFaults, foreign>>
vars == <<slot, pc, stage, goal, cleaning, provider, result, audit, verdict,
          ghosts, bounds>>

OpenAI == Kind = "openai"
Own == {"key", "fake"}

\* The stages of _run_real_verification and of _run_verification.
OpenAIPlan == <<"first", "second", "cut", "reuse", "cutCreate", "invalid",
                "restored", "missing">>
DeepSeekPlan == <<"first", "second", "cut", "reuse", "invalid", "restored",
                  "limited", "missing">>
Plan == IF OpenAI THEN OpenAIPlan ELSE DeepSeekPlan
MaxAttempts == IF OpenAI THEN 7 ELSE 6

Init == /\ target = "none" /\ expected = "none" /\ lost = FALSE /\ read = "none"
        /\ pc = "entry" /\ stage = 0 /\ goal = "key" /\ cleaning = FALSE
        /\ clients = <<>> /\ current = 0 /\ stream = "none" /\ result = "none"
        /\ sent = <<>> /\ limitHit = FALSE /\ closeFailed = FALSE
        /\ passed = {} /\ code = "none" /\ cleaned = FALSE
        /\ timedOut = "no" /\ exit = 1
        /\ opened = "none" /\ touches = 0 /\ late = FALSE
        /\ storeFaults = 0 /\ closeFaults = 0 /\ foreign = {}

-----------------------------------------------------------------------------
(* The world: other programs, and calls that fail.                         *)

\* Another program writes a value of its own into the slot, or empties it.
Other == /\ pc # "ended"
         /\ \E v \in Foreigns \ foreign :
               foreign' = foreign \union {v} /\ target' \in {v, "none"}
         /\ target' # target
         /\ UNCHANGED <<expected, lost, read, pc, stage, goal, cleaning, provider,
                        result, audit, verdict, ghosts, storeFaults, closeFaults>>

StoreFails == storeFaults < MaxStoreFaults /\ storeFaults' = storeFaults + 1
StoreWorks == storeFaults' = storeFaults

-----------------------------------------------------------------------------
(* Ends of the run.                                                        *)

End(c, status) == /\ pc' = "ended" /\ exit' = status /\ code' = c

\* ManualVerificationChecks.successful / ManualDeepSeekChecks.successful: no
\* code and every check true, the audits of the finally block included.
Successful(c, ok, wasLost) ==
    /\ c = "none" /\ ok /\ ~wasLost
    /\ passed = {Plan[i] : i \in 1..Len(Plan)}
    /\ \A i \in 1..Len(clients) : clients[i].closed
    /\ stream = "none" /\ ~closeFailed
    /\ OpenAI => (Len(sent) = MaxAttempts /\ ~limitHit /\ clients # <<>>)

FailedCode == IF OpenAI THEN "manual_verification_failed" ELSE "verification_failed"

\* What main and _emit_final report once the run has returned.
Finish(c, ok, wasLost) ==
    /\ cleaned' = ok
    /\ IF timedOut = "cancelled" THEN End("verification_runtime_timeout", 2)
       ELSE IF Successful(c, ok, wasLost) THEN End("none", 0)
       ELSE End(IF c = "none" THEN FailedCode ELSE c, 2)

\* An exception of the plan reaches the finally block with the code that its
\* handler recorded; the Provider is closed first when it exists.
LeaveBody(c) == /\ pc' = IF stage > 0 THEN "close1" ELSE "cleanup"
                /\ code' = c /\ UNCHANGED <<cleaned, exit>>

\* _run_confirmed's handlers around the first write: they return at once.
\* The one that cleans up does so only for an owned value, and a failed write
\* has recorded none.
LeaveSetup(c) == End(c, 2) /\ UNCHANGED cleaned

\* Where an exception of the credential store goes.
Raise(c, wasLost) ==
    IF cleaning THEN Finish(c, FALSE, wasLost)
    ELSE IF ~OpenAI /\ stage = 0 THEN LeaveSetup(c)
    ELSE LeaveBody(c)

LostCode == "test_target_ownership_lost"

-----------------------------------------------------------------------------
(* OwnedTestSecretStore and OwnedDeepSeekTestSecretStore.                  *)

IsOwn(v) == v = expected   \* an empty slot where nothing has been written

\* _raise_ownership_lost: sticky, the fingerprint stays.
LoseOpenAI == lost' = TRUE /\ UNCHANGED expected
\* _lose_ownership: the fingerprint is forgotten.
LoseDeepSeek == lost' = TRUE /\ expected' = "none"
Lose == IF OpenAI THEN LoseOpenAI ELSE LoseDeepSeek

\* A read that fails is ownership lost for one script, a separate error for
\* the other.
ReadFailsOpenAI == LoseOpenAI /\ Raise(LostCode, TRUE)
ReadFailsDeepSeek == /\ Raise("credential_store_unavailable", lost)
                     /\ UNCHANGED <<expected, lost>>
ReadFails == /\ StoreFails /\ read' = "failed"
             /\ IF OpenAI THEN ReadFailsOpenAI ELSE ReadFailsDeepSeek

\* verify_ownership: re-read the slot and compare.
VerifyOwnership(then) ==
    /\ UNCHANGED <<target, stage, goal, cleaning, provider, result, audit, passed,
                   timedOut, ghosts, closeFaults, foreign>>
    /\ \/ /\ OpenAI /\ lost /\ StoreWorks
          /\ Raise(LostCode, TRUE) /\ UNCHANGED <<expected, lost, read>>
       \/ /\ ~(OpenAI /\ lost) /\ StoreWorks /\ read' = target
          /\ IF IsOwn(target)
             THEN pc' = then /\ UNCHANGED <<expected, lost, code, cleaned, exit>>
             ELSE Lose /\ Raise(LostCode, TRUE)
       \/ ~(OpenAI /\ lost) /\ ReadFails

SetVerify == pc = "set.verify" /\ VerifyOwnership("set.write")

\* Seeded fault: the fingerprint is left for the read-back to record.
SetWriteUnrecorded ==
    /\ pc = "set.write" /\ StoreWorks /\ target' = goal
    /\ touches' = touches + 1 /\ pc' = "set.confirm"
    /\ UNCHANGED <<expected, lost, read, stage, goal, cleaning, provider, result, audit,
                   verdict, opened, late, closeFaults, foreign>>
\* The write, then the fingerprint; a failed write records nothing.
SetWrite ==
    /\ pc = "set.write"
    /\ UNCHANGED <<lost, read, stage, goal, cleaning, provider, result, audit,
                   passed, timedOut, opened, late, closeFaults, foreign>>
    /\ \/ /\ StoreWorks /\ target' = goal /\ expected' = goal
          /\ touches' = touches + 1 /\ pc' = "set.confirm"
          /\ UNCHANGED <<code, cleaned, exit>>
       \/ /\ StoreFails
          /\ Raise(IF OpenAI THEN code ELSE IF stage = 0 THEN "credential_setup_failed"
                   ELSE "verification_failed", lost)
          /\ UNCHANGED <<target, expected, touches>>
SetConfirm == /\ pc = "set.confirm"
              /\ VerifyOwnership(IF stage = 0 THEN "begin" ELSE "request")

DeleteVerify == pc = "del.verify" /\ VerifyOwnership("del.delete")

\* The delete itself.  DeepSeek forgets its fingerprint here, OpenAI once the
\* read that follows finds the slot empty.
DeleteSlot ==
    /\ pc = "del.delete"
    /\ UNCHANGED <<lost, read, stage, goal, cleaning, provider, result, audit,
                   passed, timedOut, opened, late, closeFaults, foreign>>
    /\ \/ /\ StoreWorks /\ target' = "none" /\ touches' = touches + 1
          /\ pc' = "del.confirm"
          /\ expected' = IF OpenAI THEN expected ELSE "none"
          /\ UNCHANGED <<code, cleaned, exit>>
       \/ /\ StoreFails
          /\ Raise(IF OpenAI THEN code ELSE "target_cleanup_failed", lost)
          /\ UNCHANGED <<target, expected, touches>>

\* Where a confirmed delete continues: both scripts read once more in the
\* cleanup, OpenAI also in the plan.
AfterDelete == IF OpenAI \/ cleaning THEN "del.read" ELSE "request"

DeleteConfirm ==
    /\ pc = "del.confirm"
    /\ UNCHANGED <<target, stage, goal, cleaning, provider, result, audit, passed,
                   timedOut, ghosts, closeFaults, foreign>>
    /\ \/ /\ StoreWorks /\ read' = target
          /\ IF target = "none"
             THEN /\ expected' = "none" /\ lost' = lost /\ pc' = AfterDelete
                  /\ UNCHANGED <<code, cleaned, exit>>
             ELSE IF OpenAI /\ IsOwn(target)
             THEN Raise(code, lost) /\ UNCHANGED <<expected, lost>>
             ELSE Lose /\ Raise(LostCode, TRUE)
       \/ ReadFails

\* get_openai_api_key() is None, and cleanup_owned's last read.
ReadAgain ==
    /\ pc = "del.read"
    /\ UNCHANGED <<target, stage, goal, cleaning, provider, result, audit, passed,
                   timedOut, ghosts, closeFaults, foreign>>
    /\ \/ /\ StoreWorks /\ read' = target
          /\ IF target = "none"
             THEN /\ UNCHANGED <<expected, lost>>
                  /\ IF cleaning THEN Finish(code, TRUE, lost)
                     ELSE pc' = "request" /\ UNCHANGED <<code, cleaned, exit>>
             ELSE Lose /\ Raise(LostCode, TRUE)
       \/ ReadFails

-----------------------------------------------------------------------------
(* The confirmed entry.                                                    *)

\* main: without the flag nothing happens; the platform, the version of the
\* SDK and the typed confirmation are checked before anything is read.
Entry == /\ pc = "entry"
         /\ \/ pc' = "check1" /\ UNCHANGED <<code, exit>>
            \/ End("manual_verification_disabled", 0)
            \/ \E c \in {"sdk_version_mismatch", "confirmation_failed"} \union
                     (IF OpenAI THEN {"windows_required", "not_confirmed"} ELSE {"unsupported_platform"}) :
                 End(c, 2)
         /\ UNCHANGED <<slot, stage, goal, cleaning, provider, result, audit, passed,
                        cleaned, timedOut, ghosts, bounds>>

\* The slot must be empty before the key is asked for, and again before it is
\* written; an occupied or unreadable slot ends the run.
CheckEmpty(l, then, unreadable) ==
    /\ pc = l
    /\ UNCHANGED <<target, expected, lost, stage, goal, cleaning, provider, result,
                   audit, passed, cleaned, timedOut, touches, late, closeFaults, foreign>>
    /\ \/ /\ StoreWorks /\ read' = target
          /\ IF target = "none" THEN pc' = then /\ UNCHANGED <<code, exit>>
             ELSE End("test_target_occupied", 2)
       \/ StoreFails /\ read' = "failed" /\ End(unreadable, 2)
    /\ opened' = target
MainOpenAI ==
    /\ OpenAI
    /\ \/ CheckEmpty("check1", "ask", "test_target_check_failed")
       \/ CheckEmpty("check2", "set.verify", "test_target_check_failed")
RunConfirmed ==
    /\ ~OpenAI
    /\ \/ CheckEmpty("check1", "ask", "credential_store_unavailable")
       \/ CheckEmpty("check2", "set.verify", "credential_store_unavailable")

\* The hidden input; an empty key or a failing prompt ends the run.
AskKey == /\ pc = "ask"
          /\ \/ pc' = "check2" /\ UNCHANGED <<code, exit>>
             \/ \E c \in (IF OpenAI THEN {"empty_key", "secret_input_failed"}
                          ELSE {"invalid_api_key_input", "credential_setup_failed"}) : End(c, 2)
          /\ UNCHANGED <<slot, stage, goal, cleaning, provider, result, audit, passed,
                         cleaned, timedOut, ghosts, bounds>>

\* The next stage of the plan, with the rotation or the delete it starts with.
BeginStage ==
    /\ pc = "begin" /\ stage' = stage + 1
    /\ LET s == Plan[stage + 1]
       IN  /\ goal' = CASE s = "invalid" -> "fake" [] s = "restored" -> "key" [] OTHER -> goal
           /\ pc' = CASE s \in {"invalid", "restored"} -> "set.verify"
                      [] s = "missing" -> "del.verify"
                      [] OTHER -> "request"
    /\ opened' = target /\ result' = "none"
    /\ UNCHANGED <<slot, cleaning, provider, audit, verdict, touches, late, bounds>>

-----------------------------------------------------------------------------
(* A request, as the Provider serves it.                                   *)

Stage == Plan[stage]
Retired == {i \in 1..Len(clients) : ~clients[i].closed /\ i # current}
Pending == Retired # {} \/ stream = "pending"

\* _retry_pending_cleanup_locked of the clients cs and of the stream (0): a
\* close that fails stays pending and the audit remembers it.  DeepSeek closes
\* no client while a stream is left.
ClosePending(cs, dropStream) ==
    \E bad \in SUBSET (cs \union (IF dropStream THEN {0} ELSE {})) :
       /\ closeFaults + Cardinality(bad) <= MaxCloseFaults
       /\ closeFaults' = closeFaults + Cardinality(bad)
       /\ (~OpenAI /\ 0 \in bad) => bad = {0}
       /\ closeFailed' = (closeFailed \/ bad # {})
       /\ clients' = [i \in 1..Len(clients) |->
                        [clients[i] EXCEPT !.closed = @ \/ (i \in cs \ bad /\ (OpenAI \/ 0 \notin bad))]]
       /\ stream' = IF dropStream THEN (IF 0 \in bad THEN "pending" ELSE "none") ELSE stream
AllClosed == closeFaults' = closeFaults

\* The Provider first retries what is pending.
StartRequest ==
    /\ pc = "request"
    /\ ClosePending(Retired, stream = "pending")
    /\ IF AllClosed THEN pc' = "get" /\ UNCHANGED result
       ELSE pc' = "judge" /\ result' = "provider_unavailable"
    /\ UNCHANGED <<slot, stage, goal, cleaning, current, sent, limitHit, verdict, ghosts,
                   storeFaults, foreign>>

\* get_secret of the owned store, called by the Provider: the run's own value,
\* or an error that retires the client.
ProviderGet ==
    /\ pc = "get"
    /\ \/ /\ StoreWorks /\ read' = target
          /\ IF IsOwn(target)
             THEN /\ UNCHANGED <<expected, lost>>
                  /\ result' = IF target = "none" THEN "missing_api_key" ELSE "none"
                  /\ IF target # "none" /\ current # 0 /\ clients[current].key = target
                     THEN pc' = "create" /\ UNCHANGED current
                     ELSE pc' = "swap" /\ current' = 0
             ELSE Lose /\ result' = "credential_unavailable" /\ pc' = "swap" /\ current' = 0
       \/ /\ StoreFails /\ read' = "failed"
          /\ IF OpenAI THEN LoseOpenAI ELSE UNCHANGED <<expected, lost>>
          /\ result' = "credential_unavailable" /\ pc' = "swap" /\ current' = 0
    /\ UNCHANGED <<target, stage, goal, cleaning, clients, stream, audit, verdict, ghosts,
                   closeFaults, foreign>>

\* The retired client is closed before another is made for the new key, which
\* may fail.
SwapClient ==
    /\ pc = "swap"
    /\ \E cs \in {Retired} :
       \/ /\ result # "none" /\ ClosePending(cs, FALSE)
          /\ pc' = "judge" /\ UNCHANGED <<current, result>>
       \/ /\ result = "none" /\ closeFaults < MaxCloseFaults /\ cs # {}
          /\ closeFaults' = closeFaults + 1 /\ closeFailed' = TRUE
          /\ pc' = "judge" /\ result' = "provider_unavailable"
          /\ UNCHANGED <<clients, current, stream>>
       \/ /\ result = "none"
          /\ clients' = Append([i \in 1..Len(clients) |-> [clients[i] EXCEPT !.closed = @ \/ i \in cs]],
                               [key |-> read, closed |-> FALSE])
          /\ current' = Len(clients) + 1 /\ pc' = "create"
          /\ UNCHANGED <<stream, result, closeFailed, closeFaults>>
       \/ /\ result = "none" /\ result' = "provider_unavailable" /\ pc' = "judge"
          /\ clients' = [i \in 1..Len(clients) |-> [clients[i] EXCEPT !.closed = @ \/ i \in cs]]
          /\ UNCHANGED <<current, stream, closeFailed, closeFaults>>
    /\ UNCHANGED <<slot, stage, goal, cleaning, sent, limitHit, verdict, ghosts,
                   storeFaults, foreign>>

\* _AuditClient.create: the request past the limit never reaches the service.
AuditCreate ==
    /\ pc = "create"
    /\ IF Len(sent) >= MaxAttempts
       THEN /\ limitHit' = TRUE /\ result' = "provider_unavailable" /\ pc' = "judge"
            /\ UNCHANGED sent
       ELSE /\ sent' = Append(sent, clients[current].key) /\ pc' = "creating"
            /\ UNCHANGED <<limitHit, result>>
    /\ UNCHANGED <<slot, stage, goal, cleaning, provider, closeFailed, verdict, ghosts, bounds>>

\* The service accepts or refuses.  In _cancel_during_create the task is
\* cancelled while it is asked, unless it answered first.
ServiceAnswers ==
    /\ pc = "creating"
    /\ \/ /\ pc' = "stream" /\ stream' = "active" /\ UNCHANGED result
       \/ /\ pc' = "judge" /\ UNCHANGED stream
          /\ result' \in {"invalid_api_key", "request_timeout", "provider_unavailable"}
                        \union (IF Stage = "cutCreate" THEN {"cut"} ELSE {})
    /\ UNCHANGED <<slot, stage, goal, cleaning, clients, current, audit, verdict, ghosts, bounds>>

\* The stream ends, or the script leaves it after its first text; either way it
\* is retired.  A close that fails turns a good answer into an error.  "partial"
\* is an answer that completes without the text, the order of events or the
\* finish reason that the first stages ask for.
StreamEnds ==
    /\ pc = "stream"
    /\ ClosePending({}, TRUE)
    /\ \E r \in {"completed", "partial", "output_budget_exhausted", "request_timeout"} :
          result' = IF Stage = "cut" /\ r = "completed" THEN "delta"
                    ELSE IF r \in {"completed", "partial"} /\ ~AllClosed THEN "provider_unavailable" ELSE r
    /\ pc' = "judge"
    /\ UNCHANGED <<slot, stage, goal, cleaning, clients, current, sent, limitHit, verdict, ghosts,
                   storeFaults, foreign>>

-----------------------------------------------------------------------------
(* The checks of each stage.                                               *)

\* _raise_for_bounded_failure.
BoundedCode(r) == CASE r = "output_budget_exhausted" -> "verification_output_budget_exhausted"
                    [] r = "request_timeout" -> "verification_request_timeout"
                    [] OTHER -> code

Done == result \in {"completed", "partial"}
ClosedBefore(n) == Len(clients) >= n /\ \A i \in 1..(n - 1) : clients[i].closed
JudgeOpenAI ==
    CASE Stage \in {"first", "second"} -> result = "completed"
      [] Stage = "cut" -> result = "delta" /\ stream = "none"
      [] Stage = "reuse" -> Done /\ Len(clients) = 1
      [] Stage = "cutCreate" -> result = "cut" /\ stream = "none"
      [] Stage = "invalid" -> result = "invalid_api_key" /\ ClosedBefore(2)
      [] Stage = "restored" -> Done /\ ClosedBefore(3)
      [] Stage = "missing" -> /\ result = "missing_api_key"
                              /\ clients[Len(clients)].closed
JudgeDeepSeek ==
    CASE Stage = "first" -> result = "completed"
      [] Stage \in {"second", "reuse", "restored"} -> Done
      [] Stage = "cut" -> result = "delta" /\ stream = "none"
      [] Stage = "invalid" -> result = "invalid_api_key"
      [] Stage = "limited" -> result = "provider_unavailable" /\ limitHit
      [] Stage = "missing" -> result = "missing_api_key"

\* The code a failed stage leaves; _cancel_during_create has none.
FailureCode ==
    IF OpenAI THEN IF lost THEN LostCode
                   ELSE IF Stage = "cutCreate" THEN code ELSE BoundedCode(result)
    ELSE CASE Stage = "cut" -> "cancellation_verification_failed"
           [] Stage = "limited" -> "request_limit_verification_failed"
           [] Stage = "missing" -> "credential_deletion_verification_failed"
           [] OTHER -> IF result \in {"completed", "partial", "delta"}
                       THEN "verification_failed" ELSE result

JudgeStage ==
    /\ pc = "judge"
    /\ IF IF OpenAI THEN JudgeOpenAI ELSE JudgeDeepSeek
       THEN /\ passed' = passed \union {Stage}
            /\ pc' = IF stage = Len(Plan) THEN "close1" ELSE "begin"
            /\ UNCHANGED code
       ELSE pc' = "close1" /\ code' = FailureCode /\ UNCHANGED passed
    /\ cleaned' = (cleaned \/ (OpenAI /\ Stage = "missing"))
    /\ UNCHANGED <<slot, stage, goal, cleaning, provider, result, audit,
                   timedOut, exit, ghosts, bounds>>

-----------------------------------------------------------------------------
(* The finally block.                                                      *)

\* provider.aclose(), twice: everything is retired, closes that fail are tried
\* again by the second call and then given up.
CloseProvider ==
    /\ pc \in {"close1", "close2"}
    /\ ClosePending({i \in 1..Len(clients) : ~clients[i].closed}, stream # "none")
    /\ current' = 0 /\ pc' = IF pc = "close1" THEN "close2" ELSE "cleanup"
    /\ UNCHANGED <<slot, stage, goal, cleaning, result, sent, limitHit, verdict, ghosts,
                   storeFaults, foreign>>

\* The cleanup of _run_real_verification: nothing is touched once ownership is
\* lost or when nothing is owned.
CleanupOpenAI ==
    IF lost THEN Finish(LostCode, FALSE, TRUE)
    ELSE IF expected # "none" THEN pc' = "del.verify" /\ UNCHANGED <<code, cleaned, exit>>
    ELSE Finish(code, cleaned, FALSE)
\* cleanup_owned: with nothing owned it still reads the slot.
CleanupDeepSeek ==
    /\ pc' = IF expected # "none" THEN "del.verify" ELSE "del.read"
    /\ code' = IF lost THEN LostCode ELSE code
    /\ UNCHANGED <<cleaned, exit>>
Cleanup == /\ pc = "cleanup" /\ cleaning' = TRUE /\ opened' = target
           /\ IF OpenAI THEN CleanupOpenAI ELSE CleanupDeepSeek
           /\ UNCHANGED <<slot, stage, goal, provider, result, audit, passed, timedOut,
                          touches, late, bounds>>

\* asyncio.wait_for cancels the run once, at one of its awaits.  In the plan
\* the stream in use is retired on the way to the finally block; a close that
\* is cancelled itself counts as failed and leaves its resource pending.
CloseCancelled == closeFailed' = TRUE /\ UNCHANGED <<clients, closeFaults>>
CancelPlan ==
    /\ timedOut' = "cancelled"
    /\ \/ pc = "creating" /\ UNCHANGED <<provider, closeFailed, closeFaults>>
       \/ pc = "stream" /\ ClosePending({}, TRUE) /\ UNCHANGED current
       \/ pc = "stream" /\ stream' = "pending" /\ CloseCancelled /\ UNCHANGED current
       \/ /\ (pc = "request" /\ Pending) \/ (pc = "swap" /\ Retired # {})
          /\ CloseCancelled /\ UNCHANGED <<current, stream>>
    /\ ~(Stage = "cut" /\ ~OpenAI)
    /\ pc' = "close1" /\ UNCHANGED <<result, code, cleaned, exit, late>>
\* _cancel_after_text_delta waits for a task of its own, which the timeout does
\* not reach: its stream stays until the Provider is closed.
CancelWait ==
    /\ timedOut' = "cancelled" /\ ~OpenAI
    /\ \/ pc = "creating" /\ stream' \in {"none", "active"}
       \/ pc = "stream" /\ UNCHANGED stream
    /\ Stage = "cut"
    /\ pc' = "close1"
    /\ UNCHANGED <<clients, current, result, closeFailed, closeFaults, code, cleaned, exit, late>>
\* Both scripts await a task that they cancelled and take any CancelledError
\* for its own: the run goes on, without a timeout.
CancelSwallowed ==
    /\ timedOut' = "swallowed"
    /\ \/ /\ pc = "creating" /\ Stage = "cutCreate" /\ result' = "cut"
          /\ UNCHANGED <<provider, closeFailed, closeFaults>>
       \/ /\ pc = "stream" /\ Stage = "cut" /\ ~OpenAI /\ result' = "delta"
          /\ ClosePending({}, TRUE) /\ UNCHANGED current
    /\ pc' = "judge" /\ UNCHANGED <<code, cleaned, exit, late>>
\* In the finally block CancelledError passes "except Exception": the rest of
\* the block is skipped.
CancelFinally ==
    /\ timedOut' = "cancelled" /\ pc \in {"close1", "close2"}
    /\ (\E i \in 1..Len(clients) : ~clients[i].closed) \/ stream # "none"
    /\ late' = TRUE /\ CloseCancelled
    /\ End("verification_runtime_timeout", 2)
    /\ UNCHANGED <<current, stream, result, cleaned>>
Timeout == /\ timedOut = "no"
           /\ CancelPlan \/ CancelWait \/ CancelSwallowed \/ CancelFinally
           /\ UNCHANGED <<slot, stage, goal, cleaning, sent, limitHit, passed,
                          opened, touches, storeFaults, foreign>>

Script == \/ Entry \/ MainOpenAI \/ RunConfirmed \/ AskKey \/ BeginStage
          \/ SetVerify \/ SetWrite \/ SetConfirm
          \/ DeleteVerify \/ DeleteSlot \/ DeleteConfirm \/ ReadAgain
          \/ StartRequest \/ ProviderGet \/ SwapClient \/ AuditCreate
          \/ ServiceAnswers \/ StreamEnds \/ JudgeStage
          \/ CloseProvider \/ Cleanup
Next == Script \/ Other \/ Timeout
Spec == Init /\ [][Next]_vars

-----------------------------------------------------------------------------
(* Properties.                                                             *)

TypeOK ==
    /\ target \in {"none"} \union Own \union Foreigns
    /\ expected \in {"none"} \union Own /\ lost \in BOOLEAN
    /\ stage \in 0..Len(Plan) /\ goal \in Own
    /\ current \in 0..Len(clients) /\ (current # 0 => ~clients[current].closed)
    /\ stream \in {"none", "active", "pending"}
    /\ passed \subseteq {Plan[i] : i \in 1..Len(Plan)}
    /\ exit \in 0..2 /\ (exit = 1 <=> pc # "ended")

\* No request is ever made with a value that another program put in the slot
\* (docs/providers/openai_provider.md:155), and none past the budget.
OnlyOwnKeysAreSent ==
    Len(sent) <= MaxAttempts /\ \A i \in 1..Len(sent) : sent[i] \in Own

\* A run that reports success has run the whole plan as written: the requests used the
\* keys of the rotation, each once; every client and stream is closed and no
\* close ever failed; the slot was seen empty after the last delete and holds
\* nothing of the run.
SuccessIsSound ==
    (exit = 0 /\ code = "none") =>
                /\ sent = (IF OpenAI THEN <<"key", "key", "key", "key", "key", "fake", "key">>
                           ELSE <<"key", "key", "key", "key", "fake", "key">>)
                /\ \A i \in 1..Len(clients) : clients[i].closed
                /\ stream = "none" /\ ~closeFailed /\ closeFaults = 0
                /\ ~lost /\ read = "none" /\ target \notin Own

\* The test key is left in the slot only by a credential manager that failed
\* or by a cancellation inside the finally block: whatever the service and the
\* other programs did, an otherwise finished run has removed it.
KeyIsRemoved ==
    (pc = "ended" /\ target \in Own) => (storeFaults > 0 \/ late)

\* After ownership is lost the run writes nothing, deletes nothing and sends
\* nothing (docs/providers/openai_provider.md:148).
NothingAfterLoss == lost => UNCHANGED <<touches, sent>>

\* A foreign value that stood in the slot when an operation began, and still
\* stands there, is not overwritten or deleted by it: only a value that arrives
\* between the check and the write is (the race the documentation admits).
ForeignValueSurvives ==
    touches' # touches => (target = opened => target \notin Foreigns)

\* A request goes out only while every older client is closed: after a
\* rotation nothing is left that still holds the old key.
OldClientsAreClosed ==
    sent' # sent => \A i \in 1..Len(clients) : i # current => clients[i].closed

\* What the scripts' comment says and they do not do (README,
\* disagreements): the cooperative timeout waits for the cleanup: a run that it ended has
\* removed the key, when the credential manager works
\* (scripts/manual_openai_verification.py:945).
TimeoutCleansUp ==
    (pc = "ended" /\ timedOut = "cancelled" /\ storeFaults = 0) => target \notin Own
=============================================================================
