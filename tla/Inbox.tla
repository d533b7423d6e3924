------------------------------- MODULE Inbox --------------------------------
(***************************************************************************)
(* One conversation: its tree of entries with the active head, the inbox   *)
(* of queued inputs and passive writes, the boundaries of a running task   *)
(* at which they are placed, the scheduler pass that places them when      *)
(* nothing runs, and the run registry's lane, which lets one worker at a   *)
(* time into the conversation.                                             *)
(*                                                                         *)
(* Every session operation holds the mutation line and ends in one commit, *)
(* so it is one action; what spans several of them (the scheduler pass,    *)
(* submit_task, the queue's create) is split where the line is released,   *)
(* and keeps what it read in variables.  A commit the store refuses is an  *)
(* action that is not enabled.                                             *)
(*                                                                         *)
(* An entry is known by its place in entries.  Entries are never rewritten *)
(* and ids only grow, so an entry carries the set of its ancestors and     *)
(* itself, and the order along a path is the order of the ids.  A claim    *)
(* and the dispatch that follows it are one step, a parked task is pending *)
(* again, and a refused dispatch leaves everything as it was (DurableTasks *)
(* and Scheduler model these).  Tool calls, answers to questions and forks *)
(* are left out.                                                           *)
(***************************************************************************)
EXTENDS Naturals, Sequences, FiniteSets

CONSTANTS
  Direct,      \* user inputs that come through submit_task
  Queueable,   \* user inputs that come through the input queue
  Writes,      \* passive write submissions, which have no task
  NoOne,       \* no task
  Modes,       \* modes in which the queue admits inputs
  WriteKinds,  \* kinds of passive writes
  MaxEntries,  \* bound: no optional message is appended past this length
  MaxBranches, \* bound: branch selections
  MaxText,     \* bound: revisions of one queued text
  MaxStops     \* bound: process deaths and parked runs

Inputs == Direct \union Queueable  \* an input names its request and its task
Requests == Inputs \union Writes

ASSUME NoOneAssumption == NoOne \notin Requests
ASSUME ModesAssumption == Modes \subseteq {"steer", "follow_up"}
ASSUME KindsAssumption == WriteKinds \subseteq {"shown", "context", "reset", "target"}
ASSUME FiniteAssumption == IsFiniteSet(Requests)
ASSUME DisjointAssumption == Inputs \intersect Writes = {}
ASSUME InboxBoundsAssumption ==
  MaxEntries \in Nat /\ MaxBranches \in Nat /\ MaxText \in Nat /\ MaxStops \in Nat

VARIABLES
  entries,  \* every entry of the conversation
  head,     \* the active leaf, 0 before the first entry
  rev,      \* the conversation's revision
  sub,      \* submissions and the task checkpoints of the inputs
  last,     \* the number of the last submission's commit
  lane,     \* the run registry's active run of this session
  host,     \* submit_task between its reservation and its admission
  queue,    \* the input queue's create between its check and its admission
  pass,     \* what the scheduler's placement pass has read
  stops     \* process deaths and parked runs so far

vars == <<entries, head, rev, sub, last, lane, host, queue, pass, stops>>

tree == <<entries, head, rev>>
memory == <<lane, host, queue, pass>>

-----------------------------------------------------------------------------
(* The tree.                                                               *)

Path(e) == IF e = 0 THEN {} ELSE entries[e].path

(* _apply_head_cut: a head marker hides what is before it on the path.      *)
Visible ==
  {e \in Path(head) : \A m \in Path(head) : entries[m].cut => m <= e}

(* Drafts of a commit; their paths follow from the head it extends.         *)
Draft(by, kind, text, cut) == [by |-> by, kind |-> kind, text |-> text, cut |-> cut]

Extend(path, drafts) ==
  entries \o
    [i \in DOMAIN drafts |->
       [path |-> path \union ((Len(entries) + 1)..(Len(entries) + i)),
        by   |-> drafts[i].by,
        kind |-> drafts[i].kind,
        text |-> drafts[i].text,
        cut  |-> drafts[i].cut]]

(* validate_entry_owners: a task appends only below its own input.          *)
OwnersOnPath(drafts) ==
  \A i \in DOMAIN drafts :
    drafts[i].by # NoOne /\ sub[drafts[i].by].entry # 0
      => sub[drafts[i].by].entry \in Path(head)

AppendEntries(drafts) ==
  /\ OwnersOnPath(drafts)
  /\ entries' = Extend(Path(head), drafts)
  /\ head' = IF drafts = <<>> THEN head ELSE Len(entries) + Len(drafts)
  /\ rev' = rev + Len(drafts)

-----------------------------------------------------------------------------
(* Submissions.  What ends without an answer (cancelled, unanswered, stale) *)
(* is closed; what is under way stays queued and placed.                    *)

NoSub ==
  [status |-> "none", placed |-> FALSE, mode |-> "none", text |-> 0, entry |-> 0,
   seq |-> 0, marker |-> FALSE, target |-> 0, show |-> FALSE, task |-> "none"]

Live(r) == sub[r].task \in {"pending", "running"}

Queued(r) == sub[r].status = "queued" /\ ~sub[r].placed

(* Mutant: an input that still waits counts as work in progress.            *)
AnyLive == \E r \in Inputs : Live(r)

(* A task of this conversation that is neither terminal nor still queued.   *)
Active == \E r \in Inputs : Live(r) /\ sub[r].placed

(* queued_submissions; their order is that of their commits.                *)
InboxItems == {r \in Requests : Queued(r)}

Oldest(S) == {r \in S : \A s \in S : sub[r].seq <= sub[s].seq}

IsInput(r) == r \in Inputs
IsSteer(r) == sub[r].mode = "steer"
IsFollowUp(r) == sub[r].mode = "follow_up"

(* Mutant: a target is checked when its write is admitted, and not again.   *)
NeverStale(r) == FALSE

(* A write that names a head is stale once its target is out of sight.      *)
Stale(r) == sub[r].target # 0 /\ sub[r].target \notin Visible

Steers == {r \in InboxItems : IsSteer(r)}
FollowUps == {r \in InboxItems : IsFollowUp(r)}

(* Mutant: the older continuation goes first.                               *)
UserByAge(at, consumer) ==
  IF at = "final" /\ consumer = NoOne THEN Oldest(Steers \union FollowUps)
  ELSE IF at \in {"post_tools", "final"} THEN Oldest(Steers) ELSE {}

(* The input a boundary takes: steering owns it, one at a time; a follow-up *)
(* is placed only by the scheduler, when no steering input is queued.       *)
User(at, consumer) ==
  IF Steers # {}
  THEN IF at \in {"post_tools", "final"} THEN Oldest(Steers) ELSE {}
  ELSE IF at = "final" /\ consumer = NoOne THEN Oldest(FollowUps) ELSE {}

(* The writes it takes: all of them, the stale ones to be settled.          *)
BoundaryWrites(at) == IF at = "settle" THEN {} ELSE InboxItems \intersect Writes

(* Writes are placed before inputs, either in the order of their commits.   *)
Before(r, s) ==
  \/ r \in Writes /\ s \in Inputs
  \/ (r \in Writes <=> s \in Writes) /\ sub[r].seq < sub[s].seq

Arranged(S) ==
  {b \in [1..Cardinality(S) -> S] : \A i, j \in DOMAIN b : i < j => Before(b[i], b[j])}

Members(s) == {s[i] : i \in DOMAIN s}

InputDraft(r) ==
  Draft(IF r \in Inputs THEN r ELSE NoOne, IF r \in Inputs THEN "user" ELSE "write",
        sub[r].text, sub[r].marker)

(* One submission placed as entry e; a steering input is consumed by the    *)
(* task at whose boundary it is placed, and its own task never runs.        *)
Placed(r, e, consumer) ==
  LET consumed == IsSteer(r) /\ consumer # NoOne
  IN  [sub[r] EXCEPT !.placed = TRUE, !.entry = e,
                     !.status = IF consumed \/ r \in Writes THEN "done" ELSE @,
                     !.task   = IF consumed THEN "completed" ELSE @]

(* One commit: said, then the submissions of batch that are not stale; the  *)
(* stale ones are settled without an entry.                                 *)
PlaceBatch(said, batch, consumer) ==
  LET stale == {r \in batch : Stale(r)}
  IN  \E b \in Arranged(batch \ stale) :
        /\ AppendEntries(said \o [i \in DOMAIN b |-> InputDraft(b[i])])
        /\ sub' = [r \in Requests |->
                     IF r \in Members(b)
                     THEN Placed(r, Len(entries) + Len(said) +
                                      (CHOOSE i \in DOMAIN b : b[i] = r), consumer)
                     ELSE IF r \in stale THEN [sub[r] EXCEPT !.status = "closed"]
                     ELSE sub[r]]

(* _prepare_boundary_mutation: writes first, then the chosen input.         *)
PlaceBoundary(said, at, consumer) ==
  PlaceBatch(said, BoundaryWrites(at) \union User(at, consumer), consumer)

-----------------------------------------------------------------------------
(* Clients: reading, submitting, editing and branching.                    *)

HostIdle == [req |-> NoOne, edit |-> 0, rev |-> 0, head |-> 0]
QueueIdle == [req |-> NoOne, mode |-> "none", busy |-> FALSE]
PassIdle == [pc |-> "idle", busy |-> FALSE, todo |-> {}]

(* _shell_spawn_gate, which the queue's create keeps over both its steps.   *)
GateFree == queue = QueueIdle

Unused(r) == sub[r] = NoSub /\ host.req # r /\ queue.req # r

(* Mutant: the phase is stored where the status belongs.                    *)
NewInputPhase(mode, e) ==
  [status |-> "queued", placed |-> e # 0, mode |-> mode, text |-> 1, entry |-> e,
   seq |-> last + 1, marker |-> FALSE, target |-> 0, show |-> FALSE, task |-> "accepted"]

(* A new input, placed as entry e or, for 0, queued.                        *)
NewInput(mode, e) ==
  [status |-> "queued", placed |-> e # 0, mode |-> mode, text |-> 1, entry |-> e,
   seq |-> last + 1, marker |-> FALSE, target |-> 0, show |-> FALSE, task |-> "pending"]

(* submit_task reserves the conversation's lane; an edit carries the entry  *)
(* it replaces and the revision its client saw, with the head it saw there. *)
Reserve(r, e) ==
  /\ Unused(r) /\ GateFree /\ lane = NoOne /\ host = HostIdle
  /\ e # 0 => entries[e].kind = "user"
  /\ lane' = r
  /\ host' = [req |-> r, edit |-> e, rev |-> IF e = 0 THEN 0 ELSE rev,
              head |-> IF e = 0 THEN 0 ELSE head]
  /\ UNCHANGED <<tree, sub, last, queue, pass, stops>>

(* ... admits the input, placed below the head ...                          *)
AdmitDirect(r) ==
  /\ host.req = r /\ host.edit = 0
  /\ AppendEntries(<<Draft(r, "user", 1, FALSE)>>)
  /\ sub' = [sub EXCEPT ![r] = NewInput("follow_up", head')]
  /\ last' = last + 1
  /\ host' = HostIdle
  /\ UNCHANGED <<lane, queue, pass, stops>>

(* Mutant: only the branch is checked, not the tasks still to be done.      *)
EditBusy == host.rev = rev /\ host.edit \in Visible

(* prepare_edit and validate_edit: the conversation is as the client saw it, *)
(* nothing is pending in it and the message is in sight.                    *)
EditAllowed ==
  /\ host.rev = rev
  /\ \A r \in Inputs : ~Live(r)
  /\ host.edit \in Visible

(* ... or places it where the edited message was ...                        *)
AdmitEdit(r) ==
  /\ host.req = r /\ host.edit # 0
  /\ EditAllowed
  /\ entries' = Extend(Path(host.edit) \ {host.edit}, <<Draft(r, "user", 1, FALSE)>>)
  /\ head' = Len(entries) + 1
  /\ rev' = rev + 1
  /\ sub' = [sub EXCEPT ![r] = NewInput("follow_up", head')]
  /\ last' = last + 1
  /\ host' = HostIdle
  /\ UNCHANGED <<lane, queue, pass, stops>>

(* ... or gives the lane back.  Nothing is stored; the mark in sub says that *)
(* the identity is spent, for another try comes with another one.           *)
RefuseEdit ==
  /\ host.edit # 0 /\ ~EditAllowed
  /\ sub' = [sub EXCEPT ![host.req].mode = "refused"]
  /\ lane' = NoOne
  /\ host' = HostIdle
  /\ UNCHANGED <<tree, last, queue, pass, stops>>

(* The queue's create decides the placement from a read of the tasks ...    *)
CheckBusy(r, mode) ==
  /\ Unused(r) /\ GateFree
  /\ queue' = [req |-> r, mode |-> mode, busy |-> Active]
  /\ UNCHANGED <<tree, sub, last, lane, host, pass, stops>>

(* ... and admits the input so in a later commit.                           *)
AdmitQueued(r) ==
  /\ queue.req = r
  /\ IF queue.busy
     THEN /\ sub' = [sub EXCEPT ![r] = NewInput(queue.mode, 0)]
          /\ UNCHANGED tree
     ELSE /\ AppendEntries(<<Draft(r, "user", 1, FALSE)>>)
          /\ sub' = [sub EXCEPT ![r] = NewInput(queue.mode, head')]
  /\ last' = last + 1
  /\ queue' = QueueIdle
  /\ UNCHANGED <<lane, host, pass, stops>>

(* Mutant: an input may be revised until its task is claimed.               *)
RevisablePending(r) == sub[r].task = "pending"

Revisable(r) == Queued(r) /\ sub[r].task = "pending"

(* revise_queued_input: a new text ...                                      *)
ReviseText(r) ==
  /\ Revisable(r) /\ sub[r].text < MaxText
  /\ sub' = [sub EXCEPT ![r].text = @ + 1]
  /\ UNCHANGED <<tree, last, memory, stops>>

(* ... or a follow-up made a steering input.                                *)
ReviseMode(r) ==
  /\ Revisable(r) /\ IsFollowUp(r)
  /\ sub' = [sub EXCEPT ![r].mode = "steer"]
  /\ UNCHANGED <<tree, last, memory, stops>>

(* request_cancel of a task nobody runs, queued or placed.                  *)
Cancel(r) ==
  /\ sub[r].task = "pending"
  /\ sub' = [sub EXCEPT ![r].task = "closed", ![r].status = "closed"]
  /\ UNCHANGED <<tree, last, memory, stops>>

(* withdraw_queued_submission_at: an input takes its task with it.          *)
Withdraw(r) ==
  /\ Queued(r)
  /\ sub' = [sub EXCEPT ![r].task = IF IsInput(r) THEN "closed" ELSE @,
                        ![r].status = "closed"]
  /\ UNCHANGED <<tree, last, memory, stops>>

(* What a passive write carries: shown only, context, a reset, a new head.  *)
WriteContents ==
  {[show |-> kind = "shown", marker |-> kind \in {"reset", "target"}, target |-> e] :
     kind \in WriteKinds \ {"target"}, e \in {0}} \union
  {[show |-> FALSE, marker |-> TRUE, target |-> e] :
     e \in IF "target" \in WriteKinds THEN DOMAIN entries ELSE {}}

NewWrite(c, status, e) ==
  [status |-> status, placed |-> e # 0, mode |-> "write", text |-> 0, entry |-> e,
   seq |-> last + 1, marker |-> c.marker, target |-> c.target, show |-> c.show, task |-> "none"]

(* A write that comes too late for its target is closed.                    *)
TooLate(c) == c.target # 0 /\ c.target \notin Visible

(* admit_write, for a later boundary.                                       *)
QueueWrite(w, c) ==
  /\ sub[w] = NoSub
  /\ sub' = [sub EXCEPT ![w] = NewWrite(c, IF TooLate(c) THEN "closed" ELSE "queued", 0)]
  /\ last' = last + 1
  /\ UNCHANGED <<tree, memory, stops>>

(* admit_write, placed at once.  A context edit is fenced by the revision   *)
(* and the head its summary was made from: an old one is refused.           *)
PlaceWrite(w, c) ==
  /\ sub[w] = NoSub
  /\ IF TooLate(c)
     THEN /\ sub' = [sub EXCEPT ![w] = NewWrite(c, "closed", 0)]
          /\ UNCHANGED tree
     ELSE /\ AppendEntries(<<Draft(NoOne, "write", 0, c.marker)>>)
          /\ sub' = [sub EXCEPT ![w] = NewWrite(c, "done", head')]
  /\ last' = last + 1
  /\ UNCHANGED <<memory, stops>>

(* Mutant: a branch is selected and the revision stays.                     *)
BranchSameRevision(e) ==
  /\ rev < Len(entries) + MaxBranches
  /\ \A r \in Inputs : ~Live(r)
  /\ head' = e
  /\ UNCHANGED <<entries, rev, sub, last, memory, stops>>

(* select_idle_branch, by a client whose revision is the current one.       *)
SelectBranch(e) ==
  /\ rev < Len(entries) + MaxBranches
  /\ \A r \in Inputs : ~Live(r)
  /\ head' = e
  /\ rev' = rev + 1
  /\ UNCHANGED <<entries, sub, last, memory, stops>>

-----------------------------------------------------------------------------
(* Workers.                                                                *)

Claim(r) == sub' = [sub EXCEPT ![r].task = "running"]

(* submit_task claims what it admitted.                                     *)
Begin(r) ==
  /\ lane = r /\ sub[r].task = "pending"
  /\ Claim(r)
  /\ UNCHANGED <<tree, last, memory, stops>>

(* The scheduler's thread claims and dispatches a placed task.              *)
Dispatch(r) ==
  /\ pass.pc = "idle" /\ GateFree /\ lane \in {NoOne, r}
  /\ sub[r].task = "pending" /\ sub[r].placed
  /\ Claim(r)
  /\ lane' = r
  /\ UNCHANGED <<tree, last, host, queue, pass, stops>>

Works(r) == lane = r /\ sub[r].task = "running"

MaySay == Len(entries) < MaxEntries

(* mutate_checkpoint with a boundary: what the provider said and the        *)
(* submissions the boundary takes, in one commit.                           *)
Boundary(r, at) ==
  /\ Works(r)
  /\ \/ MaySay /\ PlaceBoundary(<<Draft(r, "message", 0, FALSE)>>, at, r)
     \/ PlaceBoundary(<<>>, at, r)
  /\ UNCHANGED <<last, memory, stops>>

(* record_display_message: an event of a run, perhaps after its end, kept   *)
(* once and only while the run's input is in sight.                         *)
Display(r) ==
  /\ MaySay /\ \E e \in DOMAIN entries : entries[e].by = r /\ entries[e].kind = "message"
  /\ \A e \in DOMAIN entries : ~(entries[e].by = r /\ entries[e].kind = "note")
  /\ sub[r].entry \in Visible
  /\ AppendEntries(<<Draft(r, "note", 0, FALSE)>>)
  /\ UNCHANGED <<sub, last, memory, stops>>

(* complete_task: the answer and the end of the task are one commit.        *)
Complete(r) ==
  /\ Works(r)
  /\ AppendEntries(<<Draft(r, "message", 0, FALSE)>>)
  /\ sub' = [sub EXCEPT ![r].task = "completed", ![r].status = "done"]
  /\ UNCHANGED <<last, memory, stops>>

(* fail_task or cancel_task.                                                *)
Close(r) ==
  /\ Works(r)
  /\ sub' = [sub EXCEPT ![r].task = "closed", ![r].status = "closed"]
  /\ UNCHANGED <<tree, last, memory, stops>>

(* The run leaves the registry once its task is over.                       *)
Release(r) ==
  /\ lane = r /\ host.req # r /\ ~Live(r)
  /\ lane' = NoOne
  /\ UNCHANGED <<tree, sub, last, host, queue, pass, stops>>

(* A worker that waits for an answer or an approval gives up the lane, and  *)
(* its task will be claimed again.                                          *)
Park(r) ==
  /\ Works(r) /\ stops < MaxStops
  /\ sub' = [sub EXCEPT ![r].task = "pending"]
  /\ lane' = NoOne
  /\ stops' = stops + 1
  /\ UNCHANGED <<tree, last, host, queue, pass>>

(* The process dies; recovery finds what ran pending.                       *)
Crash ==
  /\ stops < MaxStops
  /\ sub' = [r \in Requests |->
               [sub[r] EXCEPT !.task = IF @ = "running" THEN "pending" ELSE @]]
  /\ lane' = NoOne /\ host' = HostIdle /\ queue' = QueueIdle /\ pass' = PassIdle
  /\ stops' = stops + 1
  /\ UNCHANGED <<tree, last>>

-----------------------------------------------------------------------------
(* The scheduler's _place_ready_inputs.                                    *)

(* The tasks in progress are read once, before anything is placed.  The     *)
(* list of writes is read right after; a write that comes in between waits  *)
(* for the next pass here.                                                  *)
PassRead ==
  /\ pass.pc = "idle"
  /\ pass' = [pc |-> "writes", busy |-> Active, todo |-> InboxItems \intersect Writes]
  /\ UNCHANGED <<tree, sub, last, lane, host, queue, stops>>

(* place_submission of the next write; beside a task, only what is shown.   *)
PassWrite ==
  /\ pass.pc = "writes"
  /\ \E w \in Oldest(pass.todo) :
       /\ IF Queued(w) /\ (sub[w].show \/ ~pass.busy)
          THEN PlaceBatch(<<>>, {w}, NoOne)
          ELSE UNCHANGED <<tree, sub>>
       /\ pass' = [pass EXCEPT !.todo = @ \ {w}]
  /\ UNCHANGED <<last, lane, host, queue, stops>>

(* The inbox is read again; busy is not.                                    *)
PassCheck ==
  /\ pass.pc = "writes" /\ pass.todo = {}
  /\ pass' = IF InboxItems # {} /\ ~pass.busy THEN [pass EXCEPT !.pc = "place"] ELSE PassIdle
  /\ UNCHANGED <<tree, sub, last, lane, host, queue, stops>>

(* place_boundary_inputs at "final", for no task.                           *)
PassPlace ==
  /\ pass.pc = "place"
  /\ PlaceBoundary(<<>>, "final", NoOne)
  /\ pass' = PassIdle
  /\ UNCHANGED <<last, lane, host, queue, stops>>

Pass == PassRead \/ PassWrite \/ PassCheck \/ PassPlace

-----------------------------------------------------------------------------
Init ==
  /\ entries = <<>> /\ head = 0 /\ rev = 0
  /\ sub = [r \in Requests |-> NoSub]
  /\ last = 0
  /\ lane = NoOne /\ host = HostIdle /\ queue = QueueIdle /\ pass = PassIdle
  /\ stops = 0

HostStep == (\E r \in Direct : AdmitDirect(r) \/ AdmitEdit(r)) \/ RefuseEdit

Next ==
  \/ \E r \in Direct : \E e \in {0} \union DOMAIN entries : Reserve(r, e)
  \/ HostStep
  \/ \E r \in Queueable : \E mode \in Modes : CheckBusy(r, mode)
  \/ \E r \in Queueable : AdmitQueued(r)
  \/ \E r \in Inputs : ReviseText(r) \/ ReviseMode(r) \/ Cancel(r)
  \/ \E r \in Requests : Withdraw(r)
  \/ \E w \in Writes : \E c \in WriteContents : QueueWrite(w, c) \/ PlaceWrite(w, c)
  \/ \E e \in DOMAIN entries : SelectBranch(e)
  \/ \E r \in Inputs : Begin(r) \/ Dispatch(r)
  \/ \E r \in Inputs : \E at \in {"post_tools", "approval", "final", "settle"} : Boundary(r, at)
  \/ \E r \in Inputs : Display(r) \/ Complete(r) \/ Close(r) \/ Release(r) \/ Park(r)
  \/ Pass
  \/ Crash

Spec == Init /\ [][Next]_vars

(* The host finishes what it began, a worker ends its run and leaves, the   *)
(* scheduler's thread goes on, and a placed task whose lane is free again   *)
(* and again is dispatched.                                                 *)
Fairness ==
  /\ WF_vars(HostStep)
  /\ WF_vars(\E r \in Queueable : AdmitQueued(r))
  /\ WF_vars(Pass)
  /\ \A r \in Inputs :
       /\ WF_vars(Begin(r))
       /\ WF_vars(Complete(r) \/ Close(r))
       /\ WF_vars(Release(r))
       /\ SF_vars(Dispatch(r))

FairSpec == Spec /\ Fairness

-----------------------------------------------------------------------------
(* Properties.                                                             *)

Entry ==
  [path : SUBSET Nat, by : Inputs \union {NoOne}, kind : {"user", "message", "note", "write"},
   text : Nat, cut : BOOLEAN]

Submission ==
  [status : {"none", "queued", "done", "closed"}, placed : BOOLEAN,
   mode : {"none", "steer", "follow_up", "write", "refused"}, text : Nat, entry : Nat, seq : Nat,
   marker : BOOLEAN, target : Nat, show : BOOLEAN,
   task : {"none", "pending", "running", "completed", "closed"}]

(* The conversation, its inbox and the memory of the process have the shape *)
(* of the tables and of the registry.                                       *)
TypeOK ==
  /\ entries \in Seq(Entry)
  /\ head \in 0..Len(entries)
  /\ rev \in Nat
  /\ sub \in [Requests -> Submission]
  /\ \A r \in Requests : sub[r].entry \in 0..Len(entries)
  /\ last \in Nat
  /\ lane \in Inputs \union {NoOne}
  /\ host \in [req : Inputs \union {NoOne}, edit : Nat, rev : Nat, head : Nat]
  /\ queue \in [req : Inputs \union {NoOne}, mode : {"none", "steer", "follow_up"}, busy : BOOLEAN]
  /\ pass \in [pc : {"idle", "writes", "place"}, busy : BOOLEAN, todo : SUBSET Writes]
  /\ stops \in Nat

(* How rows, registry and process memory hang together; with the invariants *)
(* below it is inductive.                                                   *)
Linked(r) ==
  /\ IF sub[r].placed THEN sub[r].entry \in DOMAIN entries ELSE sub[r].entry = 0
  /\ sub[r].task = "running" => sub[r].placed
  /\ sub[r].status = "none" => sub[r].seq = 0 /\ ~sub[r].placed
  /\ Queued(r) => sub[r].seq # 0
  /\ Queued(r) /\ r \in Inputs => sub[r].mode \in {"steer", "follow_up"}
  /\ r \in Writes => sub[r].task = "none" /\ sub[r].mode \in {"none", "write"}
  /\ r \in Inputs => sub[r].target = 0
  /\ sub[r].seq <= last
  /\ \A s \in Requests : s # r /\ sub[r].seq # 0 => sub[s].seq # sub[r].seq

Links ==
  /\ \A r \in Requests : Linked(r)
  /\ \A e \in DOMAIN entries : entries[e].by # NoOne => sub[entries[e].by].placed
  /\ host.req = NoOne => host = HostIdle
  /\ host.edit \in 0..Len(entries)
  /\ host.req # NoOne => lane = host.req /\ sub[host.req] = NoSub /\ queue.req # host.req
  /\ queue.req # NoOne => sub[queue.req] = NoSub /\ queue.mode \in Modes
  /\ lane # NoOne => host.req = lane \/ sub[lane].placed

UserEntries(r) == {e \in DOMAIN entries : entries[e].by = r /\ entries[e].kind = "user"}

(* Every admitted input is in the transcript once, with the text its last   *)
(* revision gave it, or waits with a task nobody has claimed, or left the   *)
(* inbox without a trace: whatever the boundary, the scheduler's pass, a    *)
(* revision, a withdrawal and a crash do to it in whatever order.           *)
Accounted ==
  \A r \in Inputs :
    IF sub[r].placed
    THEN UserEntries(r) = {sub[r].entry} /\ entries[sub[r].entry].text = sub[r].text
    ELSE /\ \A e \in DOMAIN entries : entries[e].by # r
         /\ sub[r].task = (CASE sub[r].status = "queued" -> "pending"
                             [] sub[r].status = "none" -> "none"
                             [] OTHER -> "closed")

(* What a run says or shows stands below the input it answers, also when it *)
(* comes late, and a write that names a head stands below that head: after  *)
(* an edit or a change of branch nothing of the removed turns is appended.  *)
Anchored ==
  /\ \A e \in DOMAIN entries :
       entries[e].by # NoOne => sub[entries[e].by].entry \in entries[e].path
  /\ \A w \in Writes :
       sub[w].placed /\ sub[w].target # 0 => sub[w].target \in entries[sub[w].entry].path

(* A task still to be done has its input on the active branch: neither an   *)
(* edit nor a branch selection takes the ground from under it.              *)
LiveOnBranch ==
  \A r \in Inputs : Live(r) /\ sub[r].placed => sub[r].entry \in Path(head)

(* The revision identifies the active branch: a client whose revision is    *)
(* still current sees the current head, so the fences of edits, branch      *)
(* selection and context edits protect what they are meant to.              *)
RevisionIdentifies ==
  host.edit # 0 => host.rev <= rev /\ (host.rev = rev => host.head = head)

(* What waits in the inbox leaves it in the order of its admission, steering *)
(* first: of two waiting inputs, none is placed past an older one of its     *)
(* mode, and no follow-up past steering.  An input that never waits is not   *)
(* judged: AdmitQueued places a new one at once when it has read no task in  *)
(* progress, be there older ones in the inbox or not.                        *)
InOrder ==
  [][\A r, s \in Inputs :
       Queued(r) /\ sub'[r].placed /\ Queued(s) /\ ~sub'[s].placed =>
         \/ sub[r].mode = "steer" /\ sub[s].mode = "follow_up"
         \/ sub[r].mode = sub[s].mode /\ sub[r].seq < sub[s].seq]_vars

(* Nothing stays in the inbox for ever.                                     *)
QueuedPlaced == \A r \in Requests : Queued(r) ~> ~Queued(r)

(* A follow-up enters the transcript only when no task of the conversation  *)
(* is in progress (_place_ready_inputs: "once their active run has          *)
(* settled").                                                               *)
PlacedWhenIdle ==
  [][\A r \in Inputs : Queued(r) /\ IsFollowUp(r) /\ sub'[r].placed => ~Active]_vars
=============================================================================
