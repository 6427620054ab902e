---------------------------- MODULE RecordChain ----------------------------
(***************************************************************************)
(* The Ghost-Walk record chain of PhiOS for one transition inference: the  *)
(* operator's note, the accepted intent, the policy admission receipt, the *)
(* AuthorityRequest, the AuthorizationDecision and the executable binding  *)
(* (phios/macro_operator_log.py, macro_ghostwalk_operator_editor.py,       *)
(* macro_accepted_intent.py, macro_policy_admission.py,                    *)
(* macro_authority_request.py, macro_authorization_decision.py,            *)
(* macro_capability_binding.py).                                           *)
(*                                                                         *)
(* Each record lives in an append-only ledger that every console process   *)
(* - the control server with its handler threads, the operator console -   *)
(* reads and appends without a lock between reading and appending.  Inside *)
(* a console each service has a threading.RLock of its own; the policy     *)
(* admission service has none.  A call is split at every ledger it reads.  *)
(*                                                                         *)
(* A record is identified by its place in its ledger: two records appended *)
(* at different moments differ in their timestamps, hence in their SHA-256.*)
(* A caller names the record it expects to be current; it is refused when  *)
(* the service reads another, so only calls that name the record the       *)
(* service reads are steps here.                                           *)
(***************************************************************************)
EXTENDS Naturals, Sequences, FiniteSets

CONSTANTS
  Handler,       \* threads that serve operators
  Console,       \* processes over one state root
  Code,          \* intent codes
  Profile,       \* policy profiles an environment may hold
  Admits,        \* the codes each profile admits for a request
  MaxEach,       \* no call starts that appends to a ledger of this many rows,
  MaxRows        \* nor any once the ledgers hold this many rows together

ASSUME AdmitsAssumption == Admits \in [Profile -> SUBSET Code]
ASSUME RecordBoundAssumption == {MaxEach, MaxRows} \subseteq Nat

\* APPROVE and DENY resolve a request, HOLD leaves it open.
Decision == {"approve", "deny", "hold"}
Resolving == {"approve", "deny"}

Operation ==
  {"none", "edit", "accept", "revoke", "admit", "request", "decide", "bind"}

Step ==
  {"idle", "chain", "latest", "project", "match", "existing", "decisions",
   "again", "code", "chosen", "approval", "append"}

VARIABLES
  seat,       \* the console each handler's thread runs in
  profile,    \* per console: the policy profile frozen when it started
  notes,      \* operator-log-revisions.jsonl
  intents,    \* ghostwalk-accepted-intent-revisions.jsonl
  admissions, \* ghostwalk-policy-admission-receipts.jsonl
  requests,   \* ghostwalk-authority-requests.jsonl
  decisions,  \* ghostwalk-authorization-decisions.jsonl
  bindings,   \* ghostwalk-executable-bindings.jsonl
  task        \* per handler: its call, and what it has read so far

ledgers == <<notes, intents, admissions, requests, decisions, bindings>>
rVars == <<seat, profile, ledgers, task>>

\* The rows, as far as a reader tells them apart.  rev and seq are the
\* revision and sequence numbers a row claims for itself.
NoteRow == [rev : Nat, active : BOOLEAN]
IntentRow == [rev : Nat, code : Code, active : BOOLEAN, note : Nat]
AdmissionRow == [intent : Nat, profile : Profile, admitted : BOOLEAN]
RequestRow == [admission : Nat, code : Code]
DecisionRow == [request : Nat, seq : Nat, kind : Decision]
BindingRow == [decision : Nat]

\* What a call has read: the operator note, the intent revision, the matching
\* admission receipt, the latest request, its latest decision.  at is the
\* revision or sequence number of the row it will append, admitted the decision
\* of an admission, round counts the readings of a binding call.
Idle ==
  [op |-> "none", step |-> "idle", note |-> 0, intent |-> 0, admission |-> 0,
   request |-> 0, decision |-> 0, at |-> 0, admitted |-> FALSE, round |-> 0]

Task ==
  [op : Operation, step : Step, note : Nat, intent : Nat, admission : Nat,
   request : Nat, decision : Nat, at : Nat, admitted : BOOLEAN, round : 0..1]

RecordTypeOK ==
  /\ seat \in [Handler -> Console]
  /\ profile \in [Console -> Profile]
  /\ notes \in Seq(NoteRow)
  /\ intents \in Seq(IntentRow)
  /\ admissions \in Seq(AdmissionRow)
  /\ requests \in Seq(RequestRow)
  /\ decisions \in Seq(DecisionRow)
  /\ bindings \in Seq(BindingRow)
  /\ task \in [Handler -> Task]

\* The inference came with its operator note (OperatorLog.create).
RInit ==
  /\ seat \in [Handler -> Console]
  /\ profile \in [Console -> Profile]
  /\ notes = <<[rev |-> 1, active |-> TRUE]>>
  /\ intents = <<>>
  /\ admissions = <<>>
  /\ requests = <<>>
  /\ decisions = <<>>
  /\ bindings = <<>>
  /\ task = [h \in Handler |-> Idle]

-----------------------------------------------------------------------------
(* What the readers make of the ledgers.                                   *)

\* OperatorLog._load_chain: every revision stands where its number says.  (Its
\* predecessor's digest then agrees too: a row is written for the place after
\* the prefix its writer read.)
NotesReadable == \A i \in DOMAIN notes : notes[i].rev = i

\* _validate_source_operator_note: the note's prefix is a chain.
SourceSound(n) == \A i \in DOMAIN notes : notes[i].rev <= n => notes[i].rev = i

\* GhostWalkAcceptedIntentRegistry._load_chain.
IntentsReadable ==
  \A i \in DOMAIN intents : intents[i].rev = i /\ SourceSound(intents[i].note)

\* project has something to evaluate: an accepted intent and its note.
Projectable == IntentsReadable /\ intents # <<>> /\ NotesReadable

\* _decide under profile p: ALLOW_REQUEST.  The other answers, DENY and the
\* HOLDs, differ only in the reason they give.
AllowRequest(p) ==
  LET accepted == intents[Len(intents)]
  IN  /\ accepted.active
      /\ notes[Len(notes)].active
      /\ accepted.note = Len(notes)
      /\ accepted.code \in Admits[p]

\* Mutant: any ALLOW_REQUEST receipt under the profile will do.
MatchingAny(i, p) ==
  {k \in DOMAIN admissions : admissions[k].admitted /\ admissions[k].profile = p}

\* _matching_admission_receipt: the latest ALLOW_REQUEST receipt of the revision.
Matching(i, p) ==
  {k \in DOMAIN admissions :
     /\ admissions[k].admitted
     /\ admissions[k].intent = i
     /\ admissions[k].profile = p}

Latest(S) == CHOOSE k \in S : \A j \in S : j <= k

\* _request_for_admission, which raises when there are several.
RequestsFor(k) == {r \in DOMAIN requests : requests[r].admission = k}

DecisionsOn(r) == {d \in DOMAIN decisions : decisions[d].request = r}

\* The place of row d in the chain of its request.
PlaceOf(d) == {e \in DecisionsOn(decisions[d].request) : e < d}

\* Mutant: a chain may go on after a terminal decision.
ChainContiguous(r) ==
  \A d \in DecisionsOn(r) : decisions[d].seq = Cardinality(PlaceOf(d))

\* _decision_chain: contiguous, and nothing after a terminal decision.
ChainReadable(r) ==
  /\ \A d \in DecisionsOn(r) : decisions[d].seq = Cardinality(PlaceOf(d))
  /\ \A d, e \in DecisionsOn(r) : d < e => decisions[d].kind \notin Resolving

\* The last decision of r's chain; 0 when there is none.
LatestDecision(r) == IF DecisionsOn(r) = {} THEN 0 ELSE Latest(DecisionsOn(r))

Resolved(r) ==
  DecisionsOn(r) # {} /\ decisions[LatestDecision(r)].kind \in Resolving

BindingsOf(d) == {b \in DOMAIN bindings : bindings[b].decision = d}

-----------------------------------------------------------------------------
(* Calls and locks.                                                        *)

Colleagues(h) == {g \in Handler \ {h} : seat[g] = seat[h]}

\* Mutant: the services have no locks.
NoLock(h, ops) == h \in Handler

\* No other thread of the console is inside one of the operations.
LockFree(h, ops) == \A g \in Colleagues(h) : task[g].op \notin ops

\* The accepted-intent registry's lock, and the editor's.
IntentLock == {"accept", "revoke"}
NoteLock == {"edit"}

Rows ==
  Len(notes) + Len(intents) + Len(admissions) + Len(requests)
    + Len(decisions) + Len(bindings)

\* The handler is in no call, and may begin one that appends to the ledger.
Free(h, ledger) == task[h] = Idle /\ Len(ledger) < MaxEach /\ Rows < MaxRows

Finish(h) == task' = [task EXCEPT ![h] = Idle]

\* A reading that finds what it needs goes on, any other raises.
Read(h, found, next) == IF found THEN next ELSE Finish(h)

\* A call that begins with a projection waits for this console's editor and
\* accepted-intent registry, whose locks the projection takes.
ProjectionFree(h) == LockFree(h, IntentLock \union NoteLock)

-----------------------------------------------------------------------------
(* Calls begin.  One that is refused at its first reading changes nothing. *)

\* GhostWalkOperatorEditor.edit.
Edit(h) ==
  /\ Free(h, notes)
  /\ LockFree(h, NoteLock)
  /\ NotesReadable
  /\ task' = [task EXCEPT ![h].op = "edit", ![h].step = "append",
                          ![h].at = Len(notes) + 1]
  /\ UNCHANGED <<seat, profile, ledgers>>

\* GhostWalkAcceptedIntentRegistry.accept: the note is read first.
Accept(h) ==
  /\ Free(h, intents)
  /\ LockFree(h, IntentLock)
  /\ NotesReadable /\ notes[Len(notes)].active
  /\ task' = [task EXCEPT ![h].op = "accept", ![h].step = "chain",
                          ![h].note = Len(notes)]
  /\ UNCHANGED <<seat, profile, ledgers>>

\* ... then the chain it continues.
ReadChain(h) ==
  /\ task[h].step = "chain"
  /\ Read(h, IntentsReadable,
          task' = [task EXCEPT ![h].step = "append",
                               ![h].at = Len(intents) + 1])
  /\ UNCHANGED <<seat, profile, ledgers>>

\* GhostWalkAcceptedIntentRegistry.revoke.
Revoke(h) ==
  /\ Free(h, intents)
  /\ LockFree(h, IntentLock)
  /\ IntentsReadable /\ intents # <<>> /\ intents[Len(intents)].active
  /\ task' = [task EXCEPT ![h].op = "revoke", ![h].step = "append",
                          ![h].at = Len(intents) + 1]
  /\ UNCHANGED <<seat, profile, ledgers>>

\* GhostWalkPolicyAdmissionService.record, which has no lock.  A projection
\* reads the intents, then the note; when it allows the request, the note was
\* already that one when the intents were read, so it is one reading here.
Admit(h) ==
  /\ Free(h, admissions)
  /\ ProjectionFree(h)
  /\ Projectable
  /\ task' = [task EXCEPT ![h].op = "admit", ![h].step = "append",
                          ![h].intent = Len(intents),
                          ![h].admitted = AllowRequest(profile[seat[h]])]
  /\ UNCHANGED <<seat, profile, ledgers>>

\* GhostWalkAuthorityRequestService.create: its readiness reads the projection.
Request(h) ==
  /\ Free(h, requests)
  /\ LockFree(h, {"request"}) /\ ProjectionFree(h)
  /\ Projectable /\ AllowRequest(profile[seat[h]])
  /\ task' = [task EXCEPT ![h].op = "request", ![h].step = "match",
                          ![h].intent = Len(intents)]
  /\ UNCHANGED <<seat, profile, ledgers>>

\* GhostWalkAuthorizationDecisionService.record: its readiness reads the latest
\* request.
Decide(h) ==
  /\ Free(h, decisions)
  /\ LockFree(h, {"decide"})
  /\ requests # <<>>
  /\ task' = [task EXCEPT ![h].op = "decide", ![h].step = "project",
                          ![h].request = Len(requests)]
  /\ UNCHANGED <<seat, profile, ledgers>>

\* The last decision of the latest request's chain; 0 for none.
LastDecision == IF requests = <<>> THEN 0 ELSE LatestDecision(Len(requests))

\* GhostWalkCapabilityBindingService.create: its readiness begins with the
\* latest decision (_current_approved_decision).
Bind(h) ==
  /\ Free(h, bindings)
  /\ LockFree(h, {"bind"})
  /\ LastDecision # 0 /\ ChainReadable(Len(requests))
  /\ task' = [task EXCEPT ![h].op = "bind", ![h].step = "latest",
                          ![h].decision = LastDecision]
  /\ UNCHANGED <<seat, profile, ledgers>>

-----------------------------------------------------------------------------
(* The readings of readiness, shared by request, decide and bind.          *)

\* The decision service's readiness: the latest request ...
ReadLatest(h) ==
  /\ task[h].step = "latest"
  /\ Read(h, requests # <<>>,
          task' = [task EXCEPT ![h].step = "project",
                               ![h].request = Len(requests)])
  /\ UNCHANGED <<seat, profile, ledgers>>

\* ... and the request service's: the projection,
ReadProjection(h) ==
  /\ task[h].step = "project"
  /\ ProjectionFree(h)
  /\ Read(h, Projectable /\ AllowRequest(profile[seat[h]]),
          task' = [task EXCEPT ![h].step = "match", ![h].intent = Len(intents)])
  /\ UNCHANGED <<seat, profile, ledgers>>

\* the admission receipt that matches it,
ReadAdmission(h) ==
  /\ task[h].step = "match"
  /\ LET matching == Matching(task[h].intent, profile[seat[h]])
     IN  Read(h, matching # {},
              task' = [task EXCEPT ![h].step = "existing",
                                   ![h].admission = Latest(matching)])
  /\ UNCHANGED <<seat, profile, ledgers>>

\* and its request: there is none yet when one is to be created, and it is the
\* latest one when it is to be decided or bound.
ReadExisting(h) ==
  /\ task[h].step = "existing"
  /\ LET existing == RequestsFor(task[h].admission)
     IN  IF task[h].op = "request"
         THEN Read(h, existing = {},
                   task' = [task EXCEPT ![h].step = "code", ![h].intent = 0])
         ELSE Read(h, existing = {task[h].request},
                   task' = [task EXCEPT ![h].step = "decisions",
                                        ![h].intent = 0, ![h].admission = 0])
  /\ UNCHANGED <<seat, profile, ledgers>>

\* The last reading of the decision service's readiness: an open chain when a
\* decision is to be recorded; an approval, and for the latest decision read
\* before, when it is to be bound.
ReadDecisions(h) ==
  /\ task[h].step = "decisions"
  /\ LET r == task[h].request
     IN  \/ /\ task[h].op = "decide"
            /\ Read(h, ChainReadable(r) /\ ~Resolved(r),
                    task' = [task EXCEPT ![h].step = "again"])
         \/ /\ task[h].op = "bind"
            /\ Read(h, /\ ChainReadable(r) /\ Resolved(r)
                       /\ decisions[LatestDecision(r)].kind = "approve"
                       /\ decisions[task[h].decision].kind = "approve",
                    task' = [task EXCEPT ![h].request = 0, ![h].step =
                      IF task[h].round = 0 THEN "chosen" ELSE "append"])
  /\ UNCHANGED <<seat, profile, ledgers>>

-----------------------------------------------------------------------------
(* Readings after readiness.                                               *)

\* create projects once more, for the code, without looking at its decision.
ReadCode(h) ==
  /\ task[h].step = "code"
  /\ ProjectionFree(h)
  /\ Read(h, Projectable,
          task' = [task EXCEPT ![h].step = "append", ![h].intent = Len(intents)])
  /\ UNCHANGED <<seat, profile, ledgers>>

\* record reads the request and its chain once more, not whether it is open.
ReadAgain(h) ==
  /\ task[h].step = "again"
  /\ LET r == task[h].request
     IN  Read(h, Len(requests) = r /\ ChainReadable(r),
              task' = [task EXCEPT ![h].step = "append",
                                   ![h].at = Cardinality(DecisionsOn(r))])
  /\ UNCHANGED <<seat, profile, ledgers>>

\* create finds no binding of the approved decision ...
ReadBinding(h) ==
  /\ task[h].step = "chosen"
  /\ Read(h, BindingsOf(task[h].decision) = {},
          task' = [task EXCEPT ![h].step = "approval", ![h].decision = 0])
  /\ UNCHANGED <<seat, profile, ledgers>>

\* ... and reads the approved decision once more, from the start.
ReadApproval(h) ==
  /\ task[h].step = "approval"
  /\ Read(h, LastDecision # 0 /\ ChainReadable(Len(requests)),
          task' = [task EXCEPT ![h].step = "latest", ![h].round = 1,
                               ![h].decision = LastDecision])
  /\ UNCHANGED <<seat, profile, ledgers>>

-----------------------------------------------------------------------------
(* Appends.  What the caller chose - a note's status, a code, a decision - *)
(* no reading depends on, so it is chosen here.                            *)

AppendNote(h) ==
  /\ task[h].op = "edit"
  /\ \E active \in BOOLEAN :
       notes' = Append(notes, [rev |-> task[h].at, active |-> active])
  /\ UNCHANGED <<intents, admissions, requests, decisions, bindings>>

AppendAccepted(h) ==
  /\ task[h].op = "accept"
  /\ \E c \in Code :
       intents' = Append(intents, [rev |-> task[h].at, code |-> c,
                                   active |-> TRUE, note |-> task[h].note])
  /\ UNCHANGED <<notes, admissions, requests, decisions, bindings>>

\* A revocation repeats the revision it supersedes.
AppendRevoked(h) ==
  /\ task[h].op = "revoke"
  /\ LET current == intents[task[h].at - 1]
     IN  intents' = Append(intents, [current EXCEPT !.rev = task[h].at,
                                                    !.active = FALSE])
  /\ UNCHANGED <<notes, admissions, requests, decisions, bindings>>

AppendAdmission(h) ==
  /\ task[h].op = "admit"
  /\ admissions' = Append(admissions,
                     [intent |-> task[h].intent, profile |-> profile[seat[h]],
                      admitted |-> task[h].admitted])
  /\ UNCHANGED <<notes, intents, requests, decisions, bindings>>

AppendRequest(h) ==
  /\ task[h].op = "request"
  /\ requests' = Append(requests, [admission |-> task[h].admission,
                                   code |-> intents[task[h].intent].code])
  /\ UNCHANGED <<notes, intents, admissions, decisions, bindings>>

AppendDecision(h) ==
  /\ task[h].op = "decide"
  /\ \E kind \in Decision :
       decisions' = Append(decisions, [request |-> task[h].request,
                                       seq |-> task[h].at, kind |-> kind])
  /\ UNCHANGED <<notes, intents, admissions, requests, bindings>>

AppendBinding(h) ==
  /\ task[h].op = "bind"
  /\ bindings' = Append(bindings, [decision |-> task[h].decision])
  /\ UNCHANGED <<notes, intents, admissions, requests, decisions>>

\* The append, or its failure, which leaves no row; then the call returns.
AppendRow(h) ==
  /\ task[h].step = "append"
  /\ \/ AppendNote(h)
     \/ AppendAccepted(h)
     \/ AppendRevoked(h)
     \/ AppendAdmission(h)
     \/ AppendRequest(h)
     \/ AppendDecision(h)
     \/ AppendBinding(h)
     \/ UNCHANGED ledgers
  /\ Finish(h)
  /\ UNCHANGED <<seat, profile>>

-----------------------------------------------------------------------------

\* A console dies with its calls and starts again, under the policy its
\* environment holds then.
Restart(c) ==
  /\ \E h \in Handler : seat[h] = c
  /\ \E p \in Profile : profile' = [profile EXCEPT ![c] = p]
  /\ task' = [h \in Handler |-> IF seat[h] = c THEN Idle ELSE task[h]]
  /\ UNCHANGED <<seat, ledgers>>

Serve(h) ==
  \/ Edit(h) \/ Accept(h) \/ ReadChain(h) \/ Revoke(h) \/ Admit(h)
  \/ Request(h) \/ Decide(h) \/ Bind(h)
  \/ ReadApproval(h) \/ ReadLatest(h) \/ ReadProjection(h) \/ ReadAdmission(h)
  \/ ReadExisting(h) \/ ReadDecisions(h)
  \/ ReadCode(h) \/ ReadAgain(h) \/ ReadBinding(h)
  \/ AppendRow(h)

RNext == (\E h \in Handler : Serve(h)) \/ (\E c \in Console : Restart(c))

RSpec == RInit /\ [][RNext]_rVars

-----------------------------------------------------------------------------
(* What must hold.                                                         *)

\* The console of c finds the latest request approved: readiness answers
\* DECISION_FINAL with authorization_granted, all read at one moment.
Approved(c) ==
  LET r == Len(requests)
      matching == Matching(Len(intents), profile[c])
  IN  /\ r > 0
      /\ Projectable /\ AllowRequest(profile[c])
      /\ matching # {} /\ RequestsFor(Latest(matching)) = {r}
      /\ ChainReadable(r) /\ Resolved(r)
      /\ decisions[LatestDecision(r)].kind = "approve"

\* The intent revision the admission receipt of request r is about.
AdmittedIntent(r) == admissions[requests[r].admission].intent

\* A request's code is read after its admission receipt was matched, and may be
\* that of a later revision; but no decision is ever recorded on such a
\* request: what was approved, denied or held is what policy admitted.
DecisionsAgree ==
  \A d \in DOMAIN decisions :
    LET r == decisions[d].request
    IN  requests[r].code = intents[AdmittedIntent(r)].code

\* An approval that any console finds current is for the code of the intent
\* that is accepted then.
ApprovalMatchesIntent ==
  \A c \in Console :
    Approved(c) => requests[Len(requests)].code = intents[Len(intents)].code

ReadsAs(r, kind) ==
  /\ ChainReadable(r)
  /\ DecisionsOn(r) # {}
  /\ decisions[LatestDecision(r)].kind = kind

\* What is bound stays approved: an executable binding is for an approval, and
\* whatever two consoles that decide at once append, the request it answers
\* never reads as denied or as held.
BindingStaysApproved ==
  \A b \in DOMAIN bindings :
    LET d == bindings[b].decision
        r == decisions[d].request
    IN  /\ decisions[d].kind = "approve"
        /\ ~ReadsAs(r, "deny") /\ ~ReadsAs(r, "hold")

\* Inside one console the services' locks suffice: the chains never fork, an
\* admission receipt has one request and a decision one binding.
OneConsoleReadable ==
  (\A g, h \in Handler : seat[g] = seat[h]) =>
    /\ NotesReadable /\ IntentsReadable
    /\ \A q, r \in DOMAIN requests :
         requests[q].admission = requests[r].admission => q = r
    /\ \A r \in DOMAIN requests : ChainReadable(r)
    /\ \A a, b \in DOMAIN bindings :
         bindings[a].decision = bindings[b].decision => a = b
=============================================================================
