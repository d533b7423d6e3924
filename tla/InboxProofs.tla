---------------------------- MODULE InboxProofs -----------------------------
(***************************************************************************)
(* Proofs about Inbox, for any number of inputs and writes: its types, the *)
(* agreement of inbox, transcript and tasks, and the order in which inputs *)
(* leave the inbox.  IInv is the inductive invariant: the properties       *)
(* Accounted, Anchored, LiveOnBranch and RevisionIdentifies need each      *)
(* other, and Links, which ties rows, registry and process memory.         *)
(***************************************************************************)
EXTENDS Inbox, FiniteSetTheorems, TLAPS

IInv ==
  TypeOK /\ Links /\ Accounted /\ Anchored /\ LiveOnBranch /\ RevisionIdentifies

DraftRecord ==
  [by : Inputs \union {NoOne}, kind : {"user", "message", "note", "write"},
   text : Nat, cut : BOOLEAN]

Drafts == Seq(DraftRecord)

-----------------------------------------------------------------------------
(* Appending.                                                              *)

(* A path is a set of entry numbers, also for the empty conversation.       *)
LEMMA PathType ==
  ASSUME TypeOK, NEW e \in 0..Len(entries)
  PROVE  Path(e) \in SUBSET Nat
<1>1. CASE e = 0
  BY <1>1 DEF Path
<1>2. CASE e # 0
  <2>1. entries[e] \in Entry
    BY <1>2 DEF TypeOK
  <2> QED
    BY <1>2, <2>1 DEF Path, Entry
<1> QED
  BY <1>1, <1>2

(* Extend leaves the entries alone and adds one per draft, each below the   *)
(* path it extends and the ones before it.                                  *)
LEMMA ExtendEntries ==
  ASSUME TypeOK, NEW path \in SUBSET Nat, NEW drafts \in Drafts
  PROVE  /\ Extend(path, drafts) \in Seq(Entry)
         /\ Len(Extend(path, drafts)) = Len(entries) + Len(drafts)
         /\ \A e \in DOMAIN entries : Extend(path, drafts)[e] = entries[e]
         /\ \A i \in 1..Len(drafts) :
              Extend(path, drafts)[Len(entries) + i] =
                [path |-> path \union ((Len(entries) + 1)..(Len(entries) + i)),
                 by   |-> drafts[i].by,
                 kind |-> drafts[i].kind,
                 text |-> drafts[i].text,
                 cut  |-> drafts[i].cut]
<1> DEFINE new == [i \in DOMAIN drafts |->
                     [path |-> path \union ((Len(entries) + 1)..(Len(entries) + i)),
                      by   |-> drafts[i].by,
                      kind |-> drafts[i].kind,
                      text |-> drafts[i].text,
                      cut  |-> drafts[i].cut]]
<1>1. entries \in Seq(Entry) /\ Len(entries) \in Nat
  BY DEF TypeOK
<1>2. DOMAIN drafts = 1..Len(drafts) /\ Len(drafts) \in Nat
  BY DEF Drafts
<1>3. \A i \in 1..Len(drafts) : new[i] \in Entry
  <2> HIDE DEF new
  <2> TAKE i \in 1..Len(drafts)
  <2>1. drafts[i] \in DraftRecord
    BY DEF Drafts
  <2>2. path \union ((Len(entries) + 1)..(Len(entries) + i)) \in SUBSET Nat
    <3>1. Len(entries) \in Nat /\ i \in Nat
      BY <1>1, <1>2
    <3>2. (Len(entries) + 1)..(Len(entries) + i) \in SUBSET Nat
      BY <3>1
    <3> QED
      BY <3>2
  <2>3. new[i] = [path |-> path \union ((Len(entries) + 1)..(Len(entries) + i)),
                  by   |-> drafts[i].by,
                  kind |-> drafts[i].kind,
                  text |-> drafts[i].text,
                  cut  |-> drafts[i].cut]
    BY <1>2 DEF new
  <2> DEFINE p == path \union ((Len(entries) + 1)..(Len(entries) + i))
  <2>4. p \in SUBSET Nat
    BY <2>2
  <2>5. new[i] = [path |-> p, by |-> drafts[i].by, kind |-> drafts[i].kind,
                  text |-> drafts[i].text, cut |-> drafts[i].cut]
    BY <2>3
  <2> HIDE DEF p
  <2> QED
    BY <2>1, <2>4, <2>5 DEF Entry, DraftRecord
<1>4. new \in Seq(Entry) /\ Len(new) = Len(drafts)
  BY <1>2, <1>3
<1>5. Extend(path, drafts) = entries \o new
  BY DEF Extend
<1> HIDE DEF new
<1>6. /\ entries \o new \in Seq(Entry)
      /\ Len(entries \o new) = Len(entries) + Len(drafts)
      /\ \A e \in 1..Len(entries) : (entries \o new)[e] = entries[e]
      /\ \A i \in 1..Len(drafts) : (entries \o new)[Len(entries) + i] = new[i]
  BY <1>1, <1>2, <1>4
<1>7. DOMAIN entries = 1..Len(entries)
  BY <1>1
<1> QED
  BY <1>2, <1>5, <1>6, <1>7 DEF new

(* The next entry's number, and what a single draft becomes.                *)
LEMMA AppendFacts ==
  ASSUME TypeOK, NEW drafts \in Drafts, AppendEntries(drafts)
  PROVE  /\ entries' \in Seq(Entry)
         /\ Len(entries') = Len(entries) + Len(drafts)
         /\ DOMAIN entries' = 1..(Len(entries) + Len(drafts))
         /\ \A e \in DOMAIN entries : entries'[e] = entries[e]
         /\ \A i \in 1..Len(drafts) :
              /\ entries'[Len(entries) + i].path =
                   Path(head) \union ((Len(entries) + 1)..(Len(entries) + i))
              /\ entries'[Len(entries) + i].by = drafts[i].by
              /\ entries'[Len(entries) + i].kind = drafts[i].kind
              /\ entries'[Len(entries) + i].text = drafts[i].text
         /\ head' \in 0..Len(entries')
         /\ drafts # <<>> => head' = Len(entries')
         /\ drafts = <<>> => head' = head /\ entries' = entries
         /\ rev' \in Nat /\ rev <= rev'
         /\ rev' = rev => head' = head
         /\ Path(head) \subseteq Path(head)'
<1>1. Path(head) \in SUBSET Nat /\ entries' = Extend(Path(head), drafts)
  BY PathType DEF TypeOK, AppendEntries
<1>2. /\ entries' \in Seq(Entry)
      /\ Len(entries') = Len(entries) + Len(drafts)
      /\ \A e \in DOMAIN entries : entries'[e] = entries[e]
      /\ \A i \in 1..Len(drafts) :
           entries'[Len(entries) + i] =
             [path |-> Path(head) \union ((Len(entries) + 1)..(Len(entries) + i)),
              by   |-> drafts[i].by,
              kind |-> drafts[i].kind,
              text |-> drafts[i].text,
              cut  |-> drafts[i].cut]
  BY <1>1, ExtendEntries
<1>3. /\ head' = IF drafts = <<>> THEN head ELSE Len(entries) + Len(drafts)
      /\ rev' = rev + Len(drafts)
  BY DEF AppendEntries
<1>4. /\ Len(entries) \in Nat /\ Len(drafts) \in Nat /\ rev \in Nat
      /\ head \in 0..Len(entries)
      /\ drafts # <<>> => Len(drafts) > 0
      /\ drafts = <<>> => Len(drafts) = 0
  BY DEF TypeOK, Drafts
<1>5. DOMAIN entries' = 1..(Len(entries) + Len(drafts)) /\ DOMAIN entries = 1..Len(entries)
  BY <1>2, <1>4 DEF TypeOK
<1>6. drafts = <<>> => entries' = entries
  <2>1. drafts = <<>> => \A e \in DOMAIN entries : entries'[e] = entries[e]
    BY <1>2
  <2>2. drafts = <<>> => DOMAIN entries' = DOMAIN entries
    BY <1>4, <1>5
  <2>3. entries \in Seq(Entry) /\ entries' \in Seq(Entry)
    BY <1>2 DEF TypeOK
  <2> QED
    BY <2>1, <2>2, <2>3
<1>7. \A i \in 1..Len(drafts) :
        /\ entries'[Len(entries) + i].path =
             Path(head) \union ((Len(entries) + 1)..(Len(entries) + i))
        /\ entries'[Len(entries) + i].by = drafts[i].by
        /\ entries'[Len(entries) + i].kind = drafts[i].kind
        /\ entries'[Len(entries) + i].text = drafts[i].text
  <2> TAKE i \in 1..Len(drafts)
  <2> DEFINE p == Path(head) \union ((Len(entries) + 1)..(Len(entries) + i))
  <2>1. entries'[Len(entries) + i] =
          [path |-> p, by |-> drafts[i].by, kind |-> drafts[i].kind,
           text |-> drafts[i].text, cut |-> drafts[i].cut]
    BY <1>2
  <2> HIDE DEF p
  <2>2. /\ entries'[Len(entries) + i].path = p
        /\ entries'[Len(entries) + i].by = drafts[i].by
        /\ entries'[Len(entries) + i].kind = drafts[i].kind
        /\ entries'[Len(entries) + i].text = drafts[i].text
    BY <2>1
  <2> QED
    BY <2>2 DEF p
<1>8. Path(head) \subseteq Path(head)'
  <2>1. CASE drafts = <<>>
    BY <2>1, <1>3, <1>6 DEF Path
  <2>2. CASE drafts # <<>>
    <3>1. head' = Len(entries) + Len(drafts) /\ Len(drafts) \in 1..Len(drafts) /\ head' # 0
      BY <2>2, <1>3, <1>4
    <3>2. Path(head)' = entries'[Len(entries) + Len(drafts)].path
      BY <3>1 DEF Path
    <3>3. entries'[Len(entries) + Len(drafts)].path =
            Path(head) \union ((Len(entries) + 1)..(Len(entries) + Len(drafts)))
      BY <3>1, <1>7
    <3> QED
      BY <3>2, <3>3
  <2> QED
    BY <2>1, <2>2
<1>9. /\ head' \in 0..Len(entries')
      /\ drafts # <<>> => head' = Len(entries')
      /\ drafts = <<>> => head' = head
      /\ rev' \in Nat /\ rev <= rev'
      /\ rev' = rev => head' = head
  BY <1>2, <1>3, <1>4
<1> QED
  BY <1>2, <1>5, <1>6, <1>7, <1>8, <1>9

-----------------------------------------------------------------------------
(* What every step does to rows and entries.  Each action is shown to be    *)
(* such a step, and such steps preserve the invariant.                      *)

New == DOMAIN entries' \ DOMAIN entries

EntriesGrow ==
  /\ entries' \in Seq(Entry)
  /\ Len(entries) <= Len(entries')
  /\ \A e \in DOMAIN entries : entries'[e] = entries[e]
  /\ head' \in 0..Len(entries')
  /\ rev' \in Nat /\ rev <= rev'
  /\ rev' = rev => head' = head

(* The branch is extended: what was on it stays, what is new is on it.      *)
BranchGrows ==
  /\ Path(head) \subseteq Path(head)'
  /\ New \subseteq Path(head)'
  /\ \A e \in New : Path(head) \subseteq entries'[e].path /\ e \in entries'[e].path

(* A placed row keeps its entry.  *)
PlacedStays(r) ==
  sub[r].placed =>
    /\ sub'[r].placed
    /\ sub'[r].entry = sub[r].entry
    /\ sub'[r].target = sub[r].target
    /\ sub'[r].text = sub[r].text

(* A row that is placed now is the only row of a new entry.  *)
PlacedNow(r) ==
  ~sub[r].placed /\ sub'[r].placed =>
    /\ sub'[r].entry \in New
    /\ r \in Inputs => /\ entries'[sub'[r].entry].by = r
                       /\ entries'[sub'[r].entry].kind = "user"
                       /\ entries'[sub'[r].entry].text = sub'[r].text
    /\ sub'[r].target # 0 => sub'[r].target \in entries'[sub'[r].entry].path

(* A row that is not placed has no entry, and its task has not begun.  *)
NotPlaced(r) ==
  ~sub'[r].placed =>
    /\ sub'[r].entry = 0
    /\ r \in Inputs => sub'[r].task = (CASE sub'[r].status = "queued" -> "pending"
                                        [] sub'[r].status = "none" -> "none"
                                        [] OTHER -> "closed")

RowShape(r) ==
  /\ sub'[r].task = "running" => sub'[r].placed
  /\ sub'[r].status = "none" => sub'[r].seq = 0 /\ ~sub'[r].placed
  /\ Queued(r)' => sub'[r].seq # 0
  /\ Queued(r)' /\ r \in Inputs => sub'[r].mode \in {"steer", "follow_up"}
  /\ r \in Writes => sub'[r].task = "none" /\ sub'[r].mode \in {"none", "write"}
  /\ r \in Inputs => sub'[r].target = 0

OnBranch(r) ==
  r \in Inputs /\ Live(r)' /\ sub'[r].placed => sub'[r].entry \in Path(head)'

RowStep(r) ==
  PlacedStays(r) /\ PlacedNow(r) /\ NotPlaced(r) /\ RowShape(r) /\ OnBranch(r)

(* A new entry stands below the input of its run, or is that input.         *)
EntryStep(e) ==
  entries'[e].by # NoOne =>
    /\ sub'[entries'[e].by].placed
    /\ sub'[entries'[e].by].entry \in entries'[e].path
    /\ entries'[e].kind = "user" => /\ ~sub[entries'[e].by].placed
                                    /\ sub'[entries'[e].by].entry = e

(* At most one row is numbered, with the next number.                       *)
SeqStep ==
  \/ last' = last /\ \A r \in Requests : sub'[r].seq = sub[r].seq
  \/ /\ last' = last + 1
     /\ \E q \in Requests : /\ sub'[q].seq \in {last + 1}
                            /\ \A r \in Requests \ {q} : sub'[r].seq = sub[r].seq

Rows ==
  /\ EntriesGrow
  /\ sub' \in [Requests -> Submission]
  /\ \A r \in Requests : RowStep(r)
  /\ \A e \in New : EntryStep(e)
  /\ SeqStep

(* Such a step keeps rows, transcript and branch in agreement.              *)
LEMMA RowsPreserve ==
  ASSUME IInv, Rows
  PROVE  /\ \A r \in Requests : sub'[r].entry \in 0..Len(entries')
         /\ last' \in Nat
         /\ \A r \in Requests : Linked(r)'
         /\ \A e \in DOMAIN entries' : entries'[e].by # NoOne => sub'[entries'[e].by].placed
         /\ Accounted' /\ Anchored' /\ LiveOnBranch'
<1> USE DEF Requests
<1>1. /\ entries \in Seq(Entry) /\ entries' \in Seq(Entry)
      /\ Len(entries) \in Nat /\ Len(entries') \in Nat /\ Len(entries) <= Len(entries')
      /\ DOMAIN entries = 1..Len(entries) /\ DOMAIN entries' = 1..Len(entries')
      /\ \A e \in DOMAIN entries : entries'[e] = entries[e]
  BY DEF IInv, TypeOK, Rows, EntriesGrow
<1>2. DOMAIN entries \subseteq DOMAIN entries'
  BY <1>1
<1>3. \A r \in Requests :
        /\ sub[r] \in Submission /\ sub'[r] \in Submission
        /\ Linked(r) /\ RowStep(r)
  BY DEF IInv, TypeOK, Links, Rows
<1>4. \A r \in Requests : IF sub'[r].placed THEN sub'[r].entry \in DOMAIN entries'
                                           ELSE sub'[r].entry = 0
  <2> TAKE r \in Requests
  <2> QED
    BY <1>2, <1>3 DEF RowStep, Linked, PlacedStays, PlacedNow, NotPlaced, New
<1>5. \A r \in Requests : sub'[r].entry \in 0..Len(entries')
  BY <1>1, <1>4
<1>6. \A e \in DOMAIN entries : entries[e].by \in Inputs \union {NoOne}
  <2> TAKE e \in DOMAIN entries
  <2>1. entries[e] \in Entry
    BY <1>1
  <2> QED
    BY <2>1 DEF Entry
<1>7. \A e \in DOMAIN entries' : entries'[e].by \in Inputs \union {NoOne}
  <2> TAKE e \in DOMAIN entries'
  <2>1. entries'[e] \in Entry
    BY <1>1
  <2> QED
    BY <2>1 DEF Entry
<1>8. \A e \in DOMAIN entries' : entries'[e].by # NoOne => sub'[entries'[e].by].placed
  <2> SUFFICES ASSUME NEW e \in DOMAIN entries', entries'[e].by # NoOne
               PROVE  sub'[entries'[e].by].placed
    OBVIOUS
  <2>1. CASE e \in DOMAIN entries
    <3>1. entries'[e].by = entries[e].by /\ sub[entries[e].by].placed
      BY <2>1, <1>1 DEF IInv, Links
    <3> QED
      BY <3>1, <1>3, <1>7 DEF RowStep, PlacedStays
  <2>2. CASE e \in New
    BY <2>2 DEF Rows, EntryStep
  <2> QED
    BY <2>1, <2>2 DEF New
<1>9. last \in Nat /\ last' \in Nat
  BY DEF IInv, TypeOK, Rows, SeqStep
<1>10. \A r \in Requests :
         /\ sub'[r].seq <= last'
         /\ \A s \in Requests : s # r /\ sub'[r].seq # 0 => sub'[s].seq # sub'[r].seq
  <2>1. \A r \in Requests :
          /\ sub[r].seq \in Nat /\ sub[r].seq <= last
          /\ \A s \in Requests : s # r /\ sub[r].seq # 0 => sub[s].seq # sub[r].seq
    BY <1>3 DEF Linked, Submission
  <2>2. CASE last' = last /\ \A r \in Requests : sub'[r].seq = sub[r].seq
    BY <2>1, <2>2
  <2>3. CASE /\ last' = last + 1
             /\ \E q \in Requests : /\ sub'[q].seq \in {last + 1}
                                    /\ \A r \in Requests \ {q} : sub'[r].seq = sub[r].seq
    <3>1. PICK q \in Requests : /\ sub'[q].seq = last + 1
                                /\ \A r \in Requests \ {q} : sub'[r].seq = sub[r].seq
      BY <2>3
    <3> QED
      BY <1>9, <2>1, <2>3, <3>1
  <2> QED
    BY <2>2, <2>3 DEF Rows, SeqStep
<1>11. \A r \in Requests : Linked(r)'
  <2> TAKE r \in Requests
  <2> QED
    BY <1>3, <1>4, <1>10 DEF RowStep, RowShape, Linked, Queued
<1>12. Accounted'
  <2> SUFFICES ASSUME NEW r \in Inputs
               PROVE  IF sub'[r].placed
                      THEN /\ UserEntries(r)' = {sub'[r].entry}
                           /\ entries'[sub'[r].entry].text = sub'[r].text
                      ELSE /\ \A e \in DOMAIN entries' : entries'[e].by # r
                           /\ sub'[r].task = (CASE sub'[r].status = "queued" -> "pending"
                                               [] sub'[r].status = "none" -> "none"
                                               [] OTHER -> "closed")
    BY DEF Accounted
  <2>1. r # NoOne /\ r \in Requests
    BY NoOneAssumption
  <2>2. \A e \in New : entries'[e].by = r =>
          /\ sub'[r].placed
          /\ entries'[e].kind = "user" => ~sub[r].placed /\ sub'[r].entry = e
    BY <2>1 DEF Rows, EntryStep
  <2>3. \A e \in DOMAIN entries' : e \in DOMAIN entries \/ e \in New
    BY DEF New
  <2>4. IF sub[r].placed
        THEN UserEntries(r) = {sub[r].entry} /\ entries[sub[r].entry].text = sub[r].text
        ELSE \A e \in DOMAIN entries : entries[e].by # r
    BY DEF IInv, Accounted
  <2>5. CASE sub[r].placed
    <3>1. sub'[r].placed /\ sub'[r].entry = sub[r].entry /\ sub'[r].text = sub[r].text
      BY <1>3, <2>1, <2>5 DEF RowStep, PlacedStays
    <3>2. sub[r].entry \in DOMAIN entries
      BY <1>3, <2>1, <2>5 DEF Linked
    <3>3. UserEntries(r)' = UserEntries(r)
      BY <1>1, <1>2, <2>2, <2>3, <2>5 DEF UserEntries
    <3> QED
      BY <1>1, <2>4, <2>5, <3>1, <3>2, <3>3
  <2>6. CASE ~sub[r].placed /\ sub'[r].placed
    <3>1. /\ sub'[r].entry \in New
          /\ entries'[sub'[r].entry].by = r
          /\ entries'[sub'[r].entry].kind = "user"
          /\ entries'[sub'[r].entry].text = sub'[r].text
      BY <1>3, <2>1, <2>6 DEF RowStep, PlacedNow
    <3>2. UserEntries(r)' = {sub'[r].entry}
      BY <1>1, <2>2, <2>3, <2>4, <2>6, <3>1 DEF UserEntries, New
    <3> QED
      BY <2>6, <3>1, <3>2
  <2>7. CASE ~sub[r].placed /\ ~sub'[r].placed
    <3>1. \A e \in DOMAIN entries' : entries'[e].by # r
      BY <1>1, <2>2, <2>3, <2>4, <2>7
    <3> QED
      BY <1>3, <2>1, <2>7, <3>1 DEF RowStep, NotPlaced
  <2> QED
    BY <2>5, <2>6, <2>7
<1>13. Anchored'
  <2>1. ASSUME NEW e \in DOMAIN entries', entries'[e].by # NoOne
        PROVE  sub'[entries'[e].by].entry \in entries'[e].path
    <3>1. CASE e \in DOMAIN entries
      <4>1. /\ entries'[e] = entries[e]
            /\ sub[entries[e].by].placed
            /\ sub[entries[e].by].entry \in entries[e].path
        BY <2>1, <3>1, <1>1 DEF IInv, Links, Anchored
      <4>2. entries[e].by \in Requests
        BY <2>1, <4>1, <1>7
      <4> QED
        BY <4>1, <4>2, <1>3 DEF RowStep, PlacedStays
    <3>2. CASE e \in New
      BY <2>1, <3>2 DEF Rows, EntryStep
    <3> QED
      BY <3>1, <3>2 DEF New
  <2>2. ASSUME NEW w \in Writes, sub'[w].placed, sub'[w].target # 0
        PROVE  sub'[w].target \in entries'[sub'[w].entry].path
    <3>1. CASE sub[w].placed
      <4>1. sub'[w].entry = sub[w].entry /\ sub'[w].target = sub[w].target
        BY <1>3, <3>1 DEF RowStep, PlacedStays
      <4>2. sub[w].entry \in DOMAIN entries
        BY <1>3, <3>1 DEF Linked
      <4> QED
        BY <1>1, <2>2, <3>1, <4>1, <4>2 DEF IInv, Anchored
    <3>2. CASE ~sub[w].placed
      BY <1>3, <2>2, <3>2 DEF RowStep, PlacedNow
    <3> QED
      BY <3>1, <3>2
  <2> QED
    BY <2>1, <2>2 DEF Anchored
<1>14. LiveOnBranch'
  BY <1>3 DEF LiveOnBranch, RowStep, OnBranch
<1> QED
  BY <1>5, <1>8, <1>9, <1>11, <1>12, <1>13, <1>14

-----------------------------------------------------------------------------
(* How the tree moves.                                                     *)

(* Branches with work to be done are only extended.                         *)
Keep == Path(head) \subseteq Path(head)' \/ \A r \in Inputs : ~Live(r)

(* A step that leaves the tree alone.                                       *)
LEMMA TreeStays ==
  ASSUME TypeOK, UNCHANGED tree
  PROVE  EntriesGrow /\ New = {} /\ Keep /\ Path(head)' = Path(head)
<1>1. entries' = entries /\ head' = head /\ rev' = rev
  BY DEF tree
<1>2. New = {} /\ Path(head)' = Path(head)
  BY <1>1 DEF New, Path
<1>3. entries \in Seq(Entry) /\ Len(entries) \in Nat /\ rev \in Nat /\ head \in 0..Len(entries)
  BY DEF TypeOK
<1>4. EntriesGrow
  BY <1>1, <1>3 DEF EntriesGrow
<1> QED
  BY <1>2, <1>4 DEF Keep

(* A step that appends drafts below the head.                               *)
LEMMA TreeGrows ==
  ASSUME TypeOK, NEW drafts \in Drafts, AppendEntries(drafts)
  PROVE  /\ EntriesGrow /\ Keep
         /\ New = (Len(entries) + 1)..(Len(entries) + Len(drafts))
         /\ Path(head) \subseteq Path(head)'
         /\ \A e \in New : e \in Path(head)'
         /\ \A e \in New : Path(head) \subseteq entries'[e].path /\ e \in entries'[e].path
         /\ drafts # <<>> => head' = Len(entries) + Len(drafts)
         /\ \A i \in 1..Len(drafts) :
              /\ entries'[Len(entries) + i].by = drafts[i].by
              /\ entries'[Len(entries) + i].kind = drafts[i].kind
              /\ entries'[Len(entries) + i].text = drafts[i].text
<1>1. /\ Len(entries) \in Nat /\ Len(drafts) \in Nat
      /\ DOMAIN entries = 1..Len(entries) /\ (drafts = <<>> <=> Len(drafts) = 0)
  BY DEF TypeOK, Drafts
<1>2. /\ entries' \in Seq(Entry)
      /\ Len(entries') = Len(entries) + Len(drafts)
      /\ DOMAIN entries' = 1..(Len(entries) + Len(drafts))
      /\ \A e \in DOMAIN entries : entries'[e] = entries[e]
      /\ \A i \in 1..Len(drafts) :
           /\ entries'[Len(entries) + i].path =
                Path(head) \union ((Len(entries) + 1)..(Len(entries) + i))
           /\ entries'[Len(entries) + i].by = drafts[i].by
           /\ entries'[Len(entries) + i].kind = drafts[i].kind
           /\ entries'[Len(entries) + i].text = drafts[i].text
      /\ head' \in 0..Len(entries')
      /\ drafts # <<>> => head' = Len(entries')
      /\ rev' \in Nat /\ rev <= rev'
      /\ rev' = rev => head' = head
      /\ Path(head) \subseteq Path(head)'
  BY AppendFacts
<1>3. New = (Len(entries) + 1)..(Len(entries) + Len(drafts))
  BY <1>1, <1>2 DEF New
<1>4. EntriesGrow /\ Keep
  BY <1>1, <1>2 DEF EntriesGrow, Keep
<1>5. ASSUME NEW e \in New
      PROVE  /\ Path(head) \subseteq entries'[e].path /\ e \in entries'[e].path
             /\ e \in Path(head)'
  <2>1. PICK i \in 1..Len(drafts) : e = Len(entries) + i
    <3>1. e - Len(entries) \in 1..Len(drafts) /\ e = Len(entries) + (e - Len(entries))
      BY <1>1, <1>3
    <3> QED
      BY <3>1
  <2>2. entries'[e].path = Path(head) \union ((Len(entries) + 1)..(Len(entries) + i))
    BY <1>2, <2>1
  <2>3. e \in (Len(entries) + 1)..(Len(entries) + i)
    BY <1>1, <2>1
  <2>4. head' = Len(entries) + Len(drafts) /\ Len(drafts) \in 1..Len(drafts) /\ head' # 0
    BY <1>1, <1>2, <2>1
  <2>5. Path(head)' = Path(head) \union ((Len(entries) + 1)..(Len(entries) + Len(drafts)))
    BY <1>2, <2>4 DEF Path
  <2>6. e \in (Len(entries) + 1)..(Len(entries) + Len(drafts))
    BY <1>3
  <2> QED
    BY <2>2, <2>3, <2>5, <2>6
<1> QED
  BY <1>2, <1>3, <1>4, <1>5

(* One draft.                                                               *)
LEMMA OneDraft ==
  ASSUME TypeOK, NEW by \in Inputs \union {NoOne},
         NEW kind \in {"user", "message", "note", "write"}, NEW text \in Nat, NEW cut \in BOOLEAN,
         AppendEntries(<<Draft(by, kind, text, cut)>>)
  PROVE  /\ EntriesGrow /\ Keep
         /\ New = {head'}
         /\ Path(head) \subseteq Path(head)' /\ head' \in Path(head)'
         /\ Path(head) \subseteq entries'[head'].path /\ head' \in entries'[head'].path
         /\ entries'[head'].by = by
         /\ entries'[head'].kind = kind
         /\ entries'[head'].text = text
<1> DEFINE d == Draft(by, kind, text, cut)
<1>1. d \in DraftRecord /\ d.by = by /\ d.kind = kind /\ d.text = text
  BY DEF Draft, DraftRecord
<1> HIDE DEF d
<1>2. <<d>> \in Drafts /\ Len(<<d>>) = 1 /\ <<d>>[1] = d /\ <<d>> # <<>>
  BY <1>1 DEF Drafts
<1>3. AppendEntries(<<d>>)
  BY DEF d
<1>4. Len(entries) \in Nat
  BY DEF TypeOK
<1>5. /\ EntriesGrow /\ Keep
      /\ New = (Len(entries) + 1)..(Len(entries) + 1)
      /\ Path(head) \subseteq Path(head)'
      /\ \A e \in New : e \in Path(head)'
      /\ \A e \in New : Path(head) \subseteq entries'[e].path /\ e \in entries'[e].path
      /\ head' = Len(entries) + 1
      /\ \A i \in 1..1 :
           /\ entries'[Len(entries) + i].by = <<d>>[i].by
           /\ entries'[Len(entries) + i].kind = <<d>>[i].kind
           /\ entries'[Len(entries) + i].text = <<d>>[i].text
  BY <1>2, <1>3, TreeGrows
<1>6. New = {head'}
  BY <1>4, <1>5
<1> QED
  BY <1>1, <1>2, <1>5, <1>6

-----------------------------------------------------------------------------
(* Rows.                                                                   *)

(* A row that a step leaves alone.                                          *)
LEMMA RowStays ==
  ASSUME IInv, Keep, NEW r \in Requests, sub'[r] = sub[r]
  PROVE  RowStep(r)
<1>1. Linked(r) /\ (r \in Inputs \/ r \in Writes)
  BY DEF IInv, Links, Requests
<1>2. NotPlaced(r)
  BY <1>1 DEF NotPlaced, Linked, IInv, Accounted
<1>3. RowShape(r)
  BY <1>1 DEF RowShape, Linked, Queued
<1>4. OnBranch(r)
  BY DEF OnBranch, Live, Keep, IInv, LiveOnBranch
<1> QED
  BY <1>2, <1>3, <1>4 DEF RowStep, PlacedStays, PlacedNow

(* A row whose place does not change: what is closed stays out, what waits  *)
(* has a pending task, what has ended is on the branch or not live.         *)
LEMMA RowMoves ==
  ASSUME IInv, Keep, NEW r \in Requests,
         sub'[r].placed = sub[r].placed, sub'[r].entry = sub[r].entry,
         sub'[r].target = sub[r].target, sub'[r].seq = sub[r].seq,
         sub[r].placed => sub'[r].text = sub[r].text,
         ~sub[r].placed /\ r \in Inputs =>
            \/ sub'[r].task = "pending" /\ sub'[r].status = "queued"
            \/ sub'[r].task = "closed" /\ sub'[r].status = "closed"
            \/ sub'[r].task = "none" /\ sub'[r].status = "none" /\ sub[r].seq = 0,
         sub'[r].task = "running" => sub[r].placed,
         sub'[r].status = "none" => sub[r].status = "none",
         Queued(r)' => sub[r].seq # 0,
         Queued(r)' /\ r \in Inputs => sub'[r].mode \in {"steer", "follow_up"},
         r \in Writes => sub'[r].task = "none" /\ sub'[r].mode \in {"none", "write"},
         Live(r)' /\ sub[r].placed => Live(r)
  PROVE  RowStep(r)
<1>1. Linked(r) /\ (r \in Inputs \/ r \in Writes)
  BY DEF IInv, Links, Requests
<1>2. NotPlaced(r)
  BY <1>1 DEF NotPlaced, Linked
<1>3. RowShape(r)
  BY <1>1 DEF RowShape, Linked, Queued
<1>4. OnBranch(r)
  BY DEF OnBranch, Live, Keep, IInv, LiveOnBranch
<1> QED
  BY <1>2, <1>3, <1>4 DEF RowStep, PlacedStays, PlacedNow

(* Steps that change one row and number none.                               *)
LEMMA OneRow ==
  ASSUME IInv, Keep, EntriesGrow, NEW r \in Requests, NEW v \in Submission,
         sub' = [sub EXCEPT ![r] = v], v.seq = sub[r].seq, last' = last,
         RowStep(r), \A e \in New : EntryStep(e)
  PROVE  Rows
<1>1. sub \in [Requests -> Submission]
  BY DEF IInv, TypeOK
<1>2. sub' \in [Requests -> Submission] /\ sub'[r] = v
      /\ \A s \in Requests \ {r} : sub'[s] = sub[s]
  BY <1>1
<1>3. \A s \in Requests : RowStep(s)
  BY <1>2, RowStays
<1>4. SeqStep
  BY <1>2 DEF SeqStep
<1> QED
  BY <1>2, <1>3, <1>4 DEF Rows

(* Steps that admit one row.                                                *)
LEMMA NewRow ==
  ASSUME IInv, Keep, EntriesGrow, NEW r \in Requests, NEW v \in Submission,
         sub' = [sub EXCEPT ![r] = v], v.seq = last + 1, last' = last + 1,
         RowStep(r), \A e \in New : EntryStep(e)
  PROVE  Rows
<1>1. sub \in [Requests -> Submission]
  BY DEF IInv, TypeOK
<1>2. sub' \in [Requests -> Submission] /\ sub'[r] = v
      /\ \A s \in Requests \ {r} : sub'[s] = sub[s]
  BY <1>1
<1>3. \A s \in Requests : RowStep(s)
  BY <1>2, RowStays
<1>4. SeqStep
  BY <1>2 DEF SeqStep
<1> QED
  BY <1>2, <1>3, <1>4 DEF Rows

(* Steps that change no row.                                                *)
LEMMA NoRow ==
  ASSUME IInv, Keep, EntriesGrow, sub' = sub, last' = last, \A e \in New : EntryStep(e)
  PROVE  Rows
<1>1. sub \in [Requests -> Submission]
  BY DEF IInv, TypeOK
<1>2. \A s \in Requests : RowStep(s)
  BY RowStays
<1>3. SeqStep
  BY DEF SeqStep
<1> QED
  BY <1>1, <1>2, <1>3 DEF Rows

-----------------------------------------------------------------------------
(* What the process remembers.                                             *)

HostOK ==
  /\ host \in [req : Inputs \union {NoOne}, edit : Nat, rev : Nat, head : Nat]
  /\ host.req = NoOne => host = HostIdle
  /\ host.edit \in 0..Len(entries)
  /\ host.req # NoOne => lane = host.req /\ sub[host.req] = NoSub /\ queue.req # host.req
  /\ RevisionIdentifies

QueueOK ==
  /\ queue \in [req : Inputs \union {NoOne}, mode : {"none", "steer", "follow_up"}, busy : BOOLEAN]
  /\ queue.req # NoOne => sub[queue.req] = NoSub /\ queue.mode \in Modes

LaneOK ==
  /\ lane \in Inputs \union {NoOne}
  /\ lane # NoOne => host.req = lane \/ sub[lane].placed

PassOK ==
  /\ pass \in [pc : {"idle", "writes", "place"}, busy : BOOLEAN, todo : SUBSET Writes]
  /\ stops \in Nat

(* The invariant is made of the rows' part and the memory's.                *)
LEMMA Together ==
  ASSUME IInv, Rows, HostOK', QueueOK', LaneOK', PassOK'
  PROVE  IInv'
<1>1. /\ \A r \in Requests : sub'[r].entry \in 0..Len(entries')
      /\ last' \in Nat
      /\ \A r \in Requests : Linked(r)'
      /\ \A e \in DOMAIN entries' : entries'[e].by # NoOne => sub'[entries'[e].by].placed
      /\ Accounted' /\ Anchored' /\ LiveOnBranch'
  BY RowsPreserve
<1>2. TypeOK'
  BY <1>1 DEF TypeOK, Rows, EntriesGrow, HostOK, QueueOK, LaneOK, PassOK
<1>3. Links'
  BY <1>1 DEF Links, HostOK, QueueOK, LaneOK
<1>4. RevisionIdentifies'
  BY DEF HostOK
<1> QED
  BY <1>1, <1>2, <1>3, <1>4 DEF IInv

(* The memory's part of the invariant.                                      *)
LEMMA MemoryOK ==
  ASSUME IInv
  PROVE  HostOK /\ QueueOK /\ LaneOK /\ PassOK
BY DEF IInv, TypeOK, Links, HostOK, QueueOK, LaneOK, PassOK

(* A host that is not moved keeps the revision it saw.                      *)
LEMMA HostStays ==
  ASSUME IInv, EntriesGrow, host' = host,
         host.req # NoOne => lane' = lane /\ sub'[host.req] = NoSub /\ queue'.req # host.req
  PROVE  HostOK'
<1>1. HostOK /\ rev \in Nat /\ Len(entries) \in Nat /\ Len(entries') \in Nat
  BY MemoryOK DEF IInv, TypeOK, EntriesGrow
<1>2. host.rev \in Nat
  BY <1>1 DEF HostOK
<1>3. RevisionIdentifies'
  BY <1>1, <1>2 DEF HostOK, RevisionIdentifies, EntriesGrow
<1>4. host'.edit \in 0..Len(entries')
  BY <1>1 DEF HostOK, EntriesGrow
<1> QED
  BY <1>1, <1>3, <1>4 DEF HostOK

(* A host that is idle.                                                     *)
LEMMA HostRests ==
  ASSUME EntriesGrow, host' = HostIdle
  PROVE  HostOK'
<1>0. Len(entries') \in Nat
  BY DEF EntriesGrow
<1>1. HostIdle \in [req : Inputs \union {NoOne}, edit : Nat, rev : Nat, head : Nat]
      /\ HostIdle.req = NoOne /\ HostIdle.edit = 0
  BY DEF HostIdle
<1> QED
  BY <1>0, <1>1 DEF HostOK, RevisionIdentifies, HostIdle

(* A queue that is not moved.                                               *)
LEMMA QueueStays ==
  ASSUME IInv, queue' = queue, queue.req # NoOne => sub'[queue.req] = NoSub
  PROVE  QueueOK'
BY MemoryOK DEF QueueOK

(* A queue that is idle.                                                    *)
LEMMA QueueRests ==
  ASSUME queue' = QueueIdle
  PROVE  QueueOK' /\ queue'.req = NoOne
BY DEF QueueOK, QueueIdle

(* A lane that is not moved.                                                *)
LEMMA LaneStays ==
  ASSUME IInv, Rows, lane' = lane, host' = host
  PROVE  LaneOK'
<1>1. LaneOK /\ \A r \in Requests : PlacedStays(r)
  BY MemoryOK DEF Rows, RowStep
<1> QED
  BY <1>1 DEF LaneOK, PlacedStays, Requests

(* A pass that is not moved.                                                *)
LEMMA PassStays ==
  ASSUME IInv, pass' = pass, stops' \in Nat
  PROVE  PassOK'
BY MemoryOK DEF PassOK

(* A step of the store alone: no input that someone is about to admit is    *)
(* touched.                                                                 *)
LEMMA StoreStep ==
  ASSUME IInv, Rows, UNCHANGED memory, stops' \in Nat,
         \A s \in Inputs : sub[s] = NoSub => sub'[s] = NoSub
  PROVE  IInv'
<1>1. lane' = lane /\ host' = host /\ queue' = queue /\ pass' = pass
  BY DEF memory
<1>2. HostOK /\ QueueOK /\ EntriesGrow
  BY MemoryOK DEF Rows
<1>3. host.req # NoOne => host.req \in Inputs /\ sub[host.req] = NoSub /\ queue.req # host.req
  BY <1>2 DEF HostOK
<1>4. queue.req # NoOne => queue.req \in Inputs /\ sub[queue.req] = NoSub
  BY <1>2 DEF QueueOK
<1>5. HostOK'
  BY <1>1, <1>2, <1>3, HostStays
<1>6. QueueOK'
  BY <1>1, <1>4, QueueStays
<1> QED
  BY <1>1, <1>5, <1>6, LaneStays, PassStays, Together

-----------------------------------------------------------------------------
(* Clients.                                                                *)

(* The types of a row.                                                      *)
LEMMA RowType ==
  ASSUME IInv, NEW r \in Requests
  PROVE  /\ sub \in [Requests -> Submission]
         /\ sub[r] \in Submission
         /\ Linked(r)
         /\ last \in Nat /\ stops \in Nat /\ rev \in Nat
BY DEF IInv, TypeOK, Links

(* What a row that was never used looks like.                               *)
LEMMA NoSubType ==
  /\ NoSub \in Submission
  /\ NoSub.status = "none" /\ ~NoSub.placed /\ NoSub.task = "none" /\ NoSub.seq = 0
  /\ NoSub.entry = 0 /\ NoSub.mode = "none" /\ NoSub.target = 0
BY DEF NoSub, Submission

(* Reserving changes the lane and the host.                                 *)
LEMMA ReserveInv ==
  ASSUME IInv, NEW r \in Direct, NEW e \in {0} \union DOMAIN entries, Reserve(r, e)
  PROVE  IInv'
<1>1. /\ UNCHANGED tree /\ sub' = sub /\ last' = last /\ queue' = queue /\ pass' = pass
      /\ stops' = stops /\ lane' = r
      /\ host' = [req |-> r, edit |-> e, rev |-> IF e = 0 THEN 0 ELSE rev,
                  head |-> IF e = 0 THEN 0 ELSE head]
      /\ sub[r] = NoSub /\ queue = QueueIdle
  BY DEF Reserve, Unused, GateFree
<1>2. /\ r \in Inputs /\ r \in Requests /\ r # NoOne
      /\ entries' = entries /\ head' = head /\ rev' = rev
      /\ e \in Nat /\ rev \in Nat /\ head \in Nat /\ e \in 0..Len(entries)
  <2>1. Len(entries) \in Nat /\ DOMAIN entries = 1..Len(entries) /\ head \in 0..Len(entries)
        /\ rev \in Nat
    BY DEF IInv, TypeOK
  <2> QED
    BY <1>1, <2>1, NoOneAssumption DEF Inputs, Requests, tree
<1>3. EntriesGrow /\ New = {} /\ Keep
  BY <1>1, TreeStays DEF IInv
<1>4. Rows
  BY <1>1, <1>3, NoRow
<1>5. HostOK'
  <2>1. /\ host'.req = r /\ host'.edit = e /\ (e # 0 => host'.rev = rev /\ host'.head = head)
        /\ host' \in [req : Inputs \union {NoOne}, edit : Nat, rev : Nat, head : Nat]
    BY <1>1, <1>2
  <2>2. queue'.req # r
    BY <1>1, <1>2 DEF QueueIdle
  <2> QED
    BY <1>1, <1>2, <2>1, <2>2 DEF HostOK, RevisionIdentifies
<1>6. QueueOK'
  BY <1>1, QueueRests
<1>7. LaneOK'
  BY <1>1, <1>2 DEF LaneOK
<1>8. PassOK'
  BY <1>1, PassStays, RowType, <1>2
<1> QED
  BY <1>4, <1>5, <1>6, <1>7, <1>8, Together

(* A new input, queued or placed as entry e.                                *)
LEMMA NewInputType ==
  ASSUME IInv, NEW mode \in {"steer", "follow_up"}, NEW e \in Nat
  PROVE  /\ NewInput(mode, e) \in Submission
         /\ NewInput(mode, e).seq = last + 1 /\ NewInput(mode, e).status = "queued"
         /\ NewInput(mode, e).task = "pending" /\ NewInput(mode, e).mode = mode
         /\ e # 0 => NewInput(mode, e).placed
         /\ e = 0 => ~NewInput(mode, e).placed
         /\ NewInput(mode, e).entry = e
         /\ NewInput(mode, e).target = 0 /\ NewInput(mode, e).text = 1
<1>1. last + 1 \in Nat
  BY DEF IInv, TypeOK
<1> QED
  BY <1>1 DEF Submission, NewInput

(* An input admitted and placed in one commit.                              *)
LEMMA AdmitPlaced ==
  ASSUME IInv, Keep, EntriesGrow, NEW r \in Inputs, NEW mode \in {"steer", "follow_up"},
         sub[r] = NoSub, New = {head'}, head' \in Nat \ {0}, head' \in Path(head)',
         head' \in entries'[head'].path,
         entries'[head'].by = r, entries'[head'].kind = "user", entries'[head'].text = 1,
         sub' = [sub EXCEPT ![r] = NewInput(mode, head')],
         last' = last + 1
  PROVE  Rows /\ sub'[r].placed
<1> DEFINE v == NewInput(mode, head')
<1>0. head' \in Nat /\ head' # 0
  OBVIOUS
<1>1. /\ v \in Submission /\ v.seq = last + 1 /\ v.status = "queued"
      /\ v.task = "pending" /\ v.mode = mode /\ v.placed /\ v.entry = head'
      /\ v.target = 0 /\ v.text = 1
  BY <1>0, NewInputType
<1>2. sub' = [sub EXCEPT ![r] = v]
  OBVIOUS
<1> HIDE DEF v
<1>3. r \in Requests /\ sub'[r] = v /\ last \in Nat /\ r \notin Writes /\ ~sub[r].placed
  BY <1>2, RowType, DisjointAssumption, NoSubType DEF Requests
<1>4. RowStep(r)
  <2>1. PlacedStays(r) /\ NotPlaced(r) /\ OnBranch(r)
    BY <1>1, <1>3 DEF PlacedStays, NotPlaced, OnBranch
  <2>2. PlacedNow(r)
    <3>1. sub'[r].entry = head' /\ sub'[r].text = 1 /\ sub'[r].target = 0
      BY <1>1, <1>3
    <3> QED
      BY <3>1 DEF PlacedNow
  <2>3. RowShape(r)
    BY <1>1, <1>3 DEF RowShape, Queued
  <2> QED
    BY <2>1, <2>2, <2>3 DEF RowStep
<1>5. \A e \in New : EntryStep(e)
  BY <1>1, <1>3 DEF EntryStep
<1> QED
  BY <1>1, <1>2, <1>3, <1>4, <1>5, NewRow

(* submit_task admits its input below the head.                             *)
LEMMA AdmitDirectInv ==
  ASSUME IInv, NEW r \in Direct, AdmitDirect(r)
  PROVE  IInv'
<1>1. /\ host.req = r /\ AppendEntries(<<Draft(r, "user", 1, FALSE)>>)
      /\ sub' = [sub EXCEPT ![r] = NewInput("follow_up", head')]
      /\ last' = last + 1 /\ host' = HostIdle
      /\ lane' = lane /\ queue' = queue /\ pass' = pass /\ stops' = stops
  BY DEF AdmitDirect
<1>2. r \in Inputs /\ r \in Requests /\ r # NoOne
  BY NoOneAssumption DEF Inputs, Requests
<1>3. sub[r] = NoSub /\ lane = r /\ queue.req # r
  BY <1>1, <1>2, MemoryOK DEF HostOK
<1>4. /\ EntriesGrow /\ Keep /\ New = {head'} /\ head' \in Path(head)'
      /\ head' \in entries'[head'].path /\ entries'[head'].by = r
      /\ entries'[head'].kind = "user" /\ entries'[head'].text = 1
  BY <1>1, <1>2, OneDraft DEF IInv
<1>5. head' \in Nat \ {0}
  BY <1>4 DEF New, EntriesGrow
<1>6. Rows /\ sub'[r].placed
  BY <1>1, <1>2, <1>3, <1>4, <1>5, AdmitPlaced
<1>7. queue.req # NoOne => sub'[queue.req] = NoSub
  <2>1. queue.req # NoOne => queue.req \in Requests /\ sub[queue.req] = NoSub
    BY MemoryOK DEF QueueOK, Requests
  <2> QED
    BY <1>1, <1>3, <2>1, RowType, <1>2
<1>8. LaneOK'
  BY <1>1, <1>2, <1>3, <1>6 DEF LaneOK
<1> QED
  BY <1>1, <1>2, <1>4, <1>6, <1>7, <1>8, HostRests, QueueStays, PassStays, RowType, Together

(* An edit starts a new branch above the message it replaces; nothing is    *)
(* live then.                                                               *)
LEMMA AdmitEditInv ==
  ASSUME IInv, NEW r \in Direct, AdmitEdit(r)
  PROVE  IInv'
<1> DEFINE path == Path(host.edit) \ {host.edit}
           d == Draft(r, "user", 1, FALSE)
<1>1. /\ host.req = r /\ host.edit # 0 /\ EditAllowed
      /\ entries' = Extend(path, <<d>>)
      /\ head' = Len(entries) + 1 /\ rev' = rev + 1
      /\ sub' = [sub EXCEPT ![r] = NewInput("follow_up", head')]
      /\ last' = last + 1 /\ host' = HostIdle
      /\ lane' = lane /\ queue' = queue /\ pass' = pass /\ stops' = stops
  BY DEF AdmitEdit
<1>2. r \in Inputs /\ r \in Requests /\ r # NoOne
  BY NoOneAssumption DEF Inputs, Requests
<1>3. sub[r] = NoSub /\ lane = r /\ queue.req # r
  BY <1>1, <1>2, MemoryOK DEF HostOK
<1>4. TypeOK /\ Len(entries) \in Nat /\ DOMAIN entries = 1..Len(entries) /\ rev \in Nat
  BY DEF IInv, TypeOK
<1>5. path \in SUBSET Nat
  BY <1>4, MemoryOK, PathType DEF HostOK
<1>6. d \in DraftRecord /\ d.by = r /\ d.kind = "user" /\ d.text = 1
  BY <1>2 DEF Draft, DraftRecord
<1> HIDE DEF d, path
<1>7. <<d>> \in Drafts /\ Len(<<d>>) = 1 /\ <<d>>[1] = d
  BY <1>6 DEF Drafts
<1>8. /\ entries' \in Seq(Entry) /\ Len(entries') = Len(entries) + 1
      /\ \A e \in DOMAIN entries : entries'[e] = entries[e]
      /\ entries'[Len(entries) + 1] =
           [path |-> path \union ((Len(entries) + 1)..(Len(entries) + 1)),
            by |-> d.by, kind |-> d.kind, text |-> d.text, cut |-> d.cut]
  <2>1. /\ Extend(path, <<d>>) \in Seq(Entry)
        /\ Len(Extend(path, <<d>>)) = Len(entries) + Len(<<d>>)
        /\ \A e \in DOMAIN entries : Extend(path, <<d>>)[e] = entries[e]
        /\ \A i \in 1..Len(<<d>>) :
             Extend(path, <<d>>)[Len(entries) + i] =
               [path |-> path \union ((Len(entries) + 1)..(Len(entries) + i)),
                by   |-> <<d>>[i].by, kind |-> <<d>>[i].kind,
                text |-> <<d>>[i].text, cut  |-> <<d>>[i].cut]
    BY <1>4, <1>5, <1>7, ExtendEntries
  <2>2. 1 \in 1..Len(<<d>>)
    BY <1>7
  <2> QED
    BY <1>1, <1>7, <2>1, <2>2
<1>9. DOMAIN entries' = 1..(Len(entries) + 1)
  BY <1>4, <1>8
<1>10. EntriesGrow /\ Keep /\ New = {head'} /\ head' \in Nat \ {0}
  <2>1. EntriesGrow
    BY <1>1, <1>4, <1>8 DEF EntriesGrow
  <2>2. Keep
    BY <1>1 DEF Keep, EditAllowed
  <2>3. New = {head'} /\ head' \in Nat \ {0}
    BY <1>1, <1>4, <1>9 DEF New
  <2> QED
    BY <2>1, <2>2, <2>3
<1>11. /\ head' \in entries'[head'].path /\ entries'[head'].by = r
       /\ entries'[head'].kind = "user" /\ entries'[head'].text = 1
  <2> DEFINE p == path \union ((Len(entries) + 1)..(Len(entries) + 1))
  <2>1. head' \in p
    BY <1>1, <1>4
  <2>2. entries'[head'] = [path |-> p, by |-> d.by, kind |-> d.kind, text |-> d.text, cut |-> d.cut]
    BY <1>1, <1>8
  <2> HIDE DEF p
  <2> QED
    BY <1>6, <2>1, <2>2
<1>12. head' \in Path(head)'
  BY <1>10, <1>11 DEF Path
<1>13. Rows /\ sub'[r].placed
  BY <1>1, <1>2, <1>3, <1>10, <1>11, <1>12, AdmitPlaced
<1>14. queue.req # NoOne => sub'[queue.req] = NoSub
  <2>1. queue.req # NoOne => queue.req \in Requests /\ sub[queue.req] = NoSub
    BY MemoryOK DEF QueueOK, Requests
  <2> QED
    BY <1>1, <1>3, <2>1, RowType, <1>2
<1>15. LaneOK'
  BY <1>1, <1>2, <1>3, <1>13 DEF LaneOK
<1> QED
  BY <1>1, <1>2, <1>10, <1>13, <1>14, <1>15, HostRests, QueueStays, PassStays, RowType, Together

(* The fields of a row whose task and status are set.                       *)
LEMMA Reset ==
  ASSUME IInv, NEW r \in Requests,
         NEW task \in {"none", "pending", "running", "completed", "closed"},
         NEW status \in {"none", "queued", "done", "closed"},
         sub' = [sub EXCEPT ![r].task = task, ![r].status = status]
  PROVE  \E v \in Submission :
           /\ sub' = [sub EXCEPT ![r] = v]
           /\ v.task = task /\ v.status = status
           /\ v.placed = sub[r].placed /\ v.entry = sub[r].entry /\ v.target = sub[r].target
           /\ v.seq = sub[r].seq /\ v.text = sub[r].text /\ v.mode = sub[r].mode
<1>1. sub \in [Requests -> Submission] /\ sub[r] \in Submission
  BY RowType
<1> DEFINE v == [sub[r] EXCEPT !.task = task, !.status = status]
<1>2. sub' = [sub EXCEPT ![r] = v]
  BY <1>1
<1>3. /\ v \in Submission /\ v.task = task /\ v.status = status
      /\ v.placed = sub[r].placed /\ v.entry = sub[r].entry /\ v.target = sub[r].target
      /\ v.seq = sub[r].seq /\ v.text = sub[r].text /\ v.mode = sub[r].mode
  BY <1>1 DEF Submission
<1> HIDE DEF v
<1> QED
  BY <1>2, <1>3

(* The same when only the task moves.                                       *)
LEMMA Retask ==
  ASSUME IInv, NEW r \in Requests,
         NEW task \in {"none", "pending", "running", "completed", "closed"},
         sub' = [sub EXCEPT ![r].task = task]
  PROVE  \E v \in Submission :
           /\ sub' = [sub EXCEPT ![r] = v]
           /\ v.task = task /\ v.status = sub[r].status
           /\ v.placed = sub[r].placed /\ v.entry = sub[r].entry /\ v.target = sub[r].target
           /\ v.seq = sub[r].seq /\ v.text = sub[r].text /\ v.mode = sub[r].mode
<1>1. sub \in [Requests -> Submission] /\ sub[r] \in Submission
  BY RowType
<1> DEFINE v == [sub[r] EXCEPT !.task = task]
<1>2. sub' = [sub EXCEPT ![r] = v]
  BY <1>1
<1>3. /\ v \in Submission /\ v.task = task /\ v.status = sub[r].status
      /\ v.placed = sub[r].placed /\ v.entry = sub[r].entry /\ v.target = sub[r].target
      /\ v.seq = sub[r].seq /\ v.text = sub[r].text /\ v.mode = sub[r].mode
  BY <1>1 DEF Submission
<1> HIDE DEF v
<1> QED
  BY <1>2, <1>3

(* A used row is nobody's plan.                                             *)
LEMMA UsedRow ==
  ASSUME IInv, NEW r \in Requests, NEW v, sub' = [sub EXCEPT ![r] = v], sub[r] # NoSub
  PROVE  \A s \in Inputs : sub[s] = NoSub => sub'[s] = NoSub
BY RowType DEF Requests

(* A task that was taken, closed or parked.                                 *)
LEMMA UsedTask ==
  ASSUME NEW r, sub[r].task # "none"
  PROVE  sub[r] # NoSub
BY NoSubType

(* An edit that is refused spends its identity.                             *)
LEMMA RefuseEditInv ==
  ASSUME IInv, RefuseEdit
  PROVE  IInv'
<1>0. PICK r \in Inputs : r = host.req /\ r # NoOne /\ sub[r] = NoSub /\ queue.req # r
  BY MemoryOK DEF HostOK, HostIdle, RefuseEdit
<1>1. /\ host.edit # 0 /\ sub' = [sub EXCEPT ![r].mode = "refused"]
      /\ lane' = NoOne /\ host' = HostIdle /\ UNCHANGED tree
      /\ last' = last /\ queue' = queue /\ pass' = pass /\ stops' = stops
  BY <1>0 DEF RefuseEdit
<1>2. r \in Inputs /\ r # NoOne /\ sub[r] = NoSub /\ queue.req # r
  BY <1>0
<1>3. r \in Requests /\ r \notin Writes
  BY <1>2, DisjointAssumption DEF Requests
<1>4. EntriesGrow /\ New = {} /\ Keep
  BY <1>1, TreeStays DEF IInv
<1> DEFINE v == [NoSub EXCEPT !.mode = "refused"]
<1>5. sub' = [sub EXCEPT ![r] = v]
  BY <1>1, <1>2, <1>3, RowType
<1>6. /\ v \in Submission /\ v.status = "none" /\ ~v.placed /\ v.task = "none" /\ v.seq = 0
      /\ v.entry = 0 /\ v.target = 0
  BY DEF NoSub, Submission
<1> HIDE DEF v
<1>7. sub'[r] = v
  BY <1>3, <1>5, RowType
<1>8. RowStep(r)
  <2>1. /\ ~sub[r].placed /\ sub[r].entry = 0 /\ sub[r].target = 0 /\ sub[r].seq = 0
        /\ sub[r].status = "none"
    BY <1>2, NoSubType
  <2>2. ~Queued(r)' /\ ~Live(r)'
    BY <1>6, <1>7 DEF Queued, Live
  <2>3. sub'[r].placed = sub[r].placed
    BY <1>6, <1>7, <2>1, NoSubType, <1>2 DEF Submission
  <2> QED
    BY <1>3, <1>4, <1>6, <1>7, <2>1, <2>2, <2>3, RowMoves
<1>9. Rows
  BY <1>1, <1>2, <1>3, <1>4, <1>5, <1>6, <1>8, NoSubType, OneRow
<1>10. queue.req # NoOne => sub'[queue.req] = NoSub
  <2>1. queue.req # NoOne => queue.req \in Requests /\ sub[queue.req] = NoSub
    BY MemoryOK DEF QueueOK, Requests
  <2> QED
    BY <1>2, <1>3, <1>5, <2>1, RowType
<1>11. LaneOK'
  BY <1>1 DEF LaneOK
<1> QED
  BY <1>1, <1>3, <1>4, <1>9, <1>10, <1>11, HostRests, QueueStays, PassStays, RowType, Together

(* The queue's create, first step.                                          *)
LEMMA CheckBusyInv ==
  ASSUME IInv, NEW r \in Queueable, NEW mode \in Modes, CheckBusy(r, mode)
  PROVE  IInv'
<1>1. /\ UNCHANGED tree /\ sub' = sub /\ last' = last /\ lane' = lane /\ host' = host
      /\ pass' = pass /\ stops' = stops
      /\ sub[r] = NoSub /\ host.req # r
      /\ queue' = [req |-> r, mode |-> mode, busy |-> Active]
  BY DEF CheckBusy, Unused
<1>2. r \in Inputs /\ r \in Requests /\ mode \in {"steer", "follow_up"}
  BY ModesAssumption DEF Inputs, Requests
<1>3. EntriesGrow /\ New = {} /\ Keep
  BY <1>1, TreeStays DEF IInv
<1>4. Rows
  BY <1>1, <1>3, NoRow
<1>5. Active \in BOOLEAN
  BY DEF Active
<1>6. queue'.req = r /\ queue'.mode = mode
      /\ queue' \in [req : Inputs \union {NoOne}, mode : {"none", "steer", "follow_up"}, busy : BOOLEAN]
  BY <1>1, <1>2, <1>5
<1>7. QueueOK'
  BY <1>1, <1>6 DEF QueueOK
<1>8. HostOK'
  <2>1. host.req # NoOne => sub[host.req] = NoSub
    BY MemoryOK DEF HostOK
  <2> QED
    BY <1>1, <1>3, <1>6, <2>1, HostStays
<1> QED
  BY <1>1, <1>2, <1>4, <1>7, <1>8, LaneStays, PassStays, RowType, Together

(* ... and the second, queued or placed.                                    *)
LEMMA AdmitQueuedInv ==
  ASSUME IInv, NEW r \in Queueable, AdmitQueued(r)
  PROVE  IInv'
<1>1. /\ queue.req = r /\ last' = last + 1 /\ queue' = QueueIdle
      /\ lane' = lane /\ host' = host /\ pass' = pass /\ stops' = stops
  BY DEF AdmitQueued
<1>2. r \in Inputs /\ r \in Requests /\ r # NoOne /\ r \notin Writes
  BY NoOneAssumption, DisjointAssumption DEF Inputs, Requests
<1>3. sub[r] = NoSub /\ queue.mode \in {"steer", "follow_up"}
  BY <1>1, <1>2, MemoryOK, ModesAssumption DEF QueueOK
<1>4. Rows /\ \A s \in Requests \ {r} : sub'[s] = sub[s]
  <2>1. CASE queue.busy
    <3> DEFINE v == NewInput(queue.mode, 0)
    <3>1. sub' = [sub EXCEPT ![r] = v] /\ UNCHANGED tree
      BY <2>1 DEF AdmitQueued
    <3>2. EntriesGrow /\ New = {} /\ Keep
      BY <3>1, TreeStays DEF IInv
    <3>3. /\ v \in Submission /\ v.seq = last + 1 /\ v.status = "queued"
          /\ v.task = "pending" /\ v.mode = queue.mode /\ ~v.placed /\ v.entry = 0
          /\ v.target = 0
      <4>1. 0 \in Nat
        OBVIOUS
      <4> QED
        BY <1>3, <4>1, NewInputType
    <3> HIDE DEF v
    <3>4. sub'[r] = v /\ ~sub[r].placed /\ last \in Nat /\ \A s \in Requests \ {r} : sub'[s] = sub[s]
      BY <1>2, <1>3, <3>1, RowType, NoSubType
    <3>5. RowStep(r)
      BY <1>2, <1>3, <3>3, <3>4
         DEF RowStep, PlacedStays, PlacedNow, NotPlaced, RowShape, OnBranch, Queued
    <3> QED
      BY <1>1, <1>2, <3>1, <3>2, <3>3, <3>4, <3>5, NewRow
  <2>2. CASE ~queue.busy
    <3>1. /\ AppendEntries(<<Draft(r, "user", 1, FALSE)>>)
          /\ sub' = [sub EXCEPT ![r] = NewInput(queue.mode, head')]
      BY <2>2 DEF AdmitQueued
    <3>2. /\ EntriesGrow /\ Keep /\ New = {head'} /\ head' \in Path(head)'
          /\ head' \in entries'[head'].path /\ entries'[head'].by = r
          /\ entries'[head'].kind = "user" /\ entries'[head'].text = 1
      <4>1. TypeOK /\ r \in Inputs \union {NoOne} /\ 1 \in Nat
        BY <1>2 DEF IInv
      <4> QED
        BY <3>1, <4>1, OneDraft
    <3>3. head' \in Nat \ {0}
      BY <3>2 DEF New, EntriesGrow
    <3>4. Rows
      BY <1>1, <1>2, <1>3, <3>1, <3>2, <3>3, AdmitPlaced
    <3> QED
      BY <1>2, <3>1, <3>4, RowType
  <2> QED
    BY <2>1, <2>2
<1>5. HostOK'
  <2>1. host.req # NoOne => host.req \in Requests /\ host.req # r /\ sub[host.req] = NoSub
    BY <1>1, MemoryOK DEF HostOK, Requests
  <2>2. queue'.req = NoOne /\ EntriesGrow
    BY <1>1, <1>4, QueueRests DEF Rows
  <2> QED
    BY <1>1, <1>4, <2>1, <2>2, HostStays
<1> QED
  BY <1>1, <1>2, <1>4, <1>5, QueueRests, LaneStays, PassStays, RowType, Together

(* A queued input that may be revised.                                      *)
LEMMA RevisableRow ==
  ASSUME IInv, NEW r \in Inputs, Revisable(r)
  PROVE  /\ r \in Requests /\ r \notin Writes /\ sub[r] \in Submission /\ sub[r] # NoSub
         /\ sub[r].status = "queued" /\ ~sub[r].placed /\ sub[r].task = "pending"
         /\ sub[r].seq # 0 /\ sub[r].mode \in {"steer", "follow_up"}
<1>1. r \in Requests /\ r \notin Writes /\ sub[r] \in Submission /\ Linked(r)
  BY RowType, DisjointAssumption DEF Requests
<1>2. sub[r].status = "queued" /\ ~sub[r].placed /\ sub[r].task = "pending"
  BY DEF Revisable, Queued
<1> QED
  BY <1>1, <1>2, UsedTask DEF Linked, Queued

(* A revised text.                                                          *)
LEMMA ReviseTextInv ==
  ASSUME IInv, NEW r \in Inputs, ReviseText(r)
  PROVE  IInv'
<1>1. /\ Revisable(r) /\ sub' = [sub EXCEPT ![r].text = @ + 1]
      /\ UNCHANGED tree /\ UNCHANGED memory /\ last' = last /\ stops' = stops
  BY DEF ReviseText
<1>2. /\ r \in Requests /\ r \notin Writes /\ sub[r] \in Submission /\ sub[r] # NoSub
      /\ sub[r].status = "queued" /\ ~sub[r].placed /\ sub[r].task = "pending"
      /\ sub[r].seq # 0 /\ sub[r].mode \in {"steer", "follow_up"}
  BY <1>1, RevisableRow
<1> DEFINE v == [sub[r] EXCEPT !.text = sub[r].text + 1]
<1>3. sub' = [sub EXCEPT ![r] = v]
  BY <1>1, <1>2, RowType
<1>4. /\ v \in Submission /\ v.status = sub[r].status /\ v.placed = sub[r].placed
      /\ v.task = sub[r].task /\ v.seq = sub[r].seq /\ v.mode = sub[r].mode
      /\ v.entry = sub[r].entry /\ v.target = sub[r].target
  BY <1>2 DEF Submission
<1> HIDE DEF v
<1>5. EntriesGrow /\ New = {} /\ Keep
  BY <1>1, TreeStays DEF IInv
<1>6. Rows
  <2>1. sub'[r] = v
    BY <1>2, <1>3, RowType
  <2>2. RowStep(r)
    BY <1>2, <1>4, <1>5, <2>1, RowMoves DEF Queued, Live
  <2> QED
    BY <1>1, <1>2, <1>3, <1>4, <1>5, <2>2, OneRow
<1>7. \A s \in Inputs : sub[s] = NoSub => sub'[s] = NoSub
  BY <1>2, <1>3, UsedRow
<1> QED
  BY <1>1, <1>2, <1>6, <1>7, RowType, StoreStep

(* A follow-up made a steering input.                                       *)
LEMMA ReviseModeInv ==
  ASSUME IInv, NEW r \in Inputs, ReviseMode(r)
  PROVE  IInv'
<1>1. /\ Revisable(r) /\ sub' = [sub EXCEPT ![r].mode = "steer"]
      /\ UNCHANGED tree /\ UNCHANGED memory /\ last' = last /\ stops' = stops
  BY DEF ReviseMode
<1>2. /\ r \in Requests /\ r \notin Writes /\ sub[r] \in Submission /\ sub[r] # NoSub
      /\ sub[r].status = "queued" /\ ~sub[r].placed /\ sub[r].task = "pending"
      /\ sub[r].seq # 0
  BY <1>1, RevisableRow
<1> DEFINE v == [sub[r] EXCEPT !.mode = "steer"]
<1>3. sub' = [sub EXCEPT ![r] = v]
  BY <1>1, <1>2, RowType
<1>4. /\ v \in Submission /\ v.status = sub[r].status /\ v.placed = sub[r].placed
      /\ v.task = sub[r].task /\ v.seq = sub[r].seq /\ v.mode = "steer"
      /\ v.entry = sub[r].entry /\ v.target = sub[r].target
  BY <1>2 DEF Submission
<1> HIDE DEF v
<1>5. EntriesGrow /\ New = {} /\ Keep
  BY <1>1, TreeStays DEF IInv
<1>6. Rows
  <2>1. sub'[r] = v
    BY <1>2, <1>3, RowType
  <2>2. RowStep(r)
    BY <1>2, <1>4, <1>5, <2>1, RowMoves DEF Queued, Live
  <2> QED
    BY <1>1, <1>2, <1>3, <1>4, <1>5, <2>2, OneRow
<1>7. \A s \in Inputs : sub[s] = NoSub => sub'[s] = NoSub
  BY <1>2, <1>3, UsedRow
<1> QED
  BY <1>1, <1>2, <1>6, <1>7, RowType, StoreStep

(* Closing a task that is not the row's last word: cancelled, failed.       *)
LEMMA CloseRow ==
  ASSUME IInv, NEW r \in Inputs, sub[r].task # "none",
         sub' = [sub EXCEPT ![r].task = "closed", ![r].status = "closed"],
         UNCHANGED tree, UNCHANGED memory, last' = last, stops' = stops
  PROVE  IInv'
<1>1. r \in Requests /\ r \notin Writes /\ sub[r] # NoSub
  BY DisjointAssumption, UsedTask DEF Requests
<1>2. PICK v \in Submission :
        /\ sub' = [sub EXCEPT ![r] = v]
        /\ v.task = "closed" /\ v.status = "closed"
        /\ v.placed = sub[r].placed /\ v.entry = sub[r].entry /\ v.target = sub[r].target
        /\ v.seq = sub[r].seq /\ v.text = sub[r].text /\ v.mode = sub[r].mode
  BY <1>1, Reset
<1>3. EntriesGrow /\ New = {} /\ Keep
  BY TreeStays DEF IInv
<1>4. RowStep(r)
  <2>1. sub'[r] = v
    BY <1>1, <1>2, RowType
  <2> QED
    BY <1>1, <1>2, <1>3, <2>1, RowMoves DEF Queued, Live
<1>5. Rows
  BY <1>1, <1>2, <1>3, <1>4, OneRow
<1>6. \A s \in Inputs : sub[s] = NoSub => sub'[s] = NoSub
  BY <1>1, <1>2, UsedRow
<1> QED
  BY <1>1, <1>5, <1>6, RowType, StoreStep

(* A write withdrawn.                                                       *)
LEMMA WithdrawInv ==
  ASSUME IInv, NEW r \in Requests, Withdraw(r)
  PROVE  IInv'
<1>1. /\ Queued(r) /\ UNCHANGED tree /\ UNCHANGED memory /\ last' = last /\ stops' = stops
      /\ sub' = [sub EXCEPT ![r].task = IF IsInput(r) THEN "closed" ELSE @,
                            ![r].status = "closed"]
  BY DEF Withdraw
<1>2. CASE r \in Inputs
  <2>1. sub' = [sub EXCEPT ![r].task = "closed", ![r].status = "closed"]
    BY <1>1, <1>2 DEF IsInput
  <2>2. sub[r].task # "none"
    BY <1>1, <1>2 DEF IInv, Accounted, Queued
  <2> QED
    BY <1>1, <1>2, <2>1, <2>2, CloseRow
<1>3. CASE r \notin Inputs
  <2>1. Linked(r) /\ r \in Writes /\ sub[r] \in Submission
    BY <1>3, RowType DEF Requests
  <2>2. sub[r].task = "none" /\ sub[r].mode \in {"none", "write"} /\ ~sub[r].placed
    BY <1>1, <2>1 DEF Linked, Queued
  <2>3. sub' = [sub EXCEPT ![r].task = "none", ![r].status = "closed"]
    BY <1>1, <1>3, <2>2, RowType DEF IsInput
  <2> DEFINE v == [sub[r] EXCEPT !.task = "none", !.status = "closed"]
  <2>4. /\ sub' = [sub EXCEPT ![r] = v] /\ v \in Submission
        /\ v.task = "none" /\ v.status = "closed"
        /\ v.placed = sub[r].placed /\ v.entry = sub[r].entry /\ v.target = sub[r].target
        /\ v.seq = sub[r].seq /\ v.text = sub[r].text /\ v.mode = sub[r].mode
    <3>1. sub \in [Requests -> Submission]
      BY RowType
    <3>2. sub' = [sub EXCEPT ![r] = v]
      BY <2>3, <3>1
    <3>3. /\ v \in Submission /\ v.task = "none" /\ v.status = "closed"
          /\ v.placed = sub[r].placed /\ v.entry = sub[r].entry /\ v.target = sub[r].target
          /\ v.seq = sub[r].seq /\ v.text = sub[r].text /\ v.mode = sub[r].mode
      BY <2>1 DEF Submission
    <3> QED
      BY <3>2, <3>3
  <2> HIDE DEF v
  <2>5. EntriesGrow /\ New = {} /\ Keep
    BY <1>1, TreeStays DEF IInv
  <2>6. RowStep(r)
    <3>1. sub'[r] = v
      BY <2>4, RowType
    <3> QED
      BY <1>3, <2>2, <2>4, <2>5, <3>1, RowMoves DEF Queued, Live
  <2>7. Rows
    BY <1>1, <2>4, <2>5, <2>6, OneRow
  <2>8. \A s \in Inputs : sub[s] = NoSub => sub'[s] = NoSub
    BY <1>3, <2>4, RowType DEF Requests
  <2> QED
    BY <1>1, <2>7, <2>8, RowType, StoreStep
<1> QED
  BY <1>2, <1>3

(* A task claimed by its submitter.                                         *)
LEMMA ClaimRows ==
  ASSUME IInv, NEW r \in Inputs, sub[r].task = "pending", sub[r].placed, Claim(r),
         UNCHANGED tree, last' = last
  PROVE  Rows /\ \A s \in Inputs : sub[s] = NoSub => sub'[s] = NoSub
<1>1. r \in Requests /\ r \notin Writes /\ sub[r] # NoSub
  BY DisjointAssumption, UsedTask DEF Requests
<1>2. PICK v \in Submission :
        /\ sub' = [sub EXCEPT ![r] = v]
        /\ v.task = "running" /\ v.status = sub[r].status
        /\ v.placed = sub[r].placed /\ v.entry = sub[r].entry /\ v.target = sub[r].target
        /\ v.seq = sub[r].seq /\ v.text = sub[r].text /\ v.mode = sub[r].mode
  BY <1>1, Retask DEF Claim
<1>3. EntriesGrow /\ New = {} /\ Keep
  BY TreeStays DEF IInv
<1>4. RowStep(r)
  <2>1. sub'[r] = v
    BY <1>1, <1>2, RowType
  <2> QED
    BY <1>1, <1>2, <1>3, <2>1, RowMoves DEF Queued, Live
<1>5. Rows
  BY <1>1, <1>2, <1>3, <1>4, OneRow
<1> QED
  BY <1>1, <1>2, <1>5, UsedRow

(* submit_task's own claim.                                                 *)
LEMMA BeginInv ==
  ASSUME IInv, NEW r \in Inputs, Begin(r)
  PROVE  IInv'
<1>1. /\ lane = r /\ sub[r].task = "pending" /\ Claim(r) /\ UNCHANGED tree
      /\ UNCHANGED memory /\ last' = last /\ stops' = stops
  BY DEF Begin
<1>2. r # NoOne /\ r \in Requests
  BY NoOneAssumption DEF Requests
<1>3. sub[r].placed
  BY <1>1, <1>2, MemoryOK, UsedTask DEF LaneOK, HostOK
<1> QED
  BY <1>1, <1>2, <1>3, ClaimRows, RowType, StoreStep

(* The scheduler's dispatch takes the lane.                                 *)
LEMMA DispatchInv ==
  ASSUME IInv, NEW r \in Inputs, Dispatch(r)
  PROVE  IInv'
<1>1. /\ lane \in {NoOne, r} /\ sub[r].task = "pending" /\ sub[r].placed /\ Claim(r)
      /\ UNCHANGED tree /\ lane' = r /\ last' = last /\ host' = host /\ queue' = queue
      /\ pass' = pass /\ stops' = stops
  BY DEF Dispatch
<1>2. r # NoOne /\ r \in Requests
  BY NoOneAssumption DEF Requests
<1>3. Rows /\ \A s \in Inputs : sub[s] = NoSub => sub'[s] = NoSub
  BY <1>1, ClaimRows
<1>4. HostOK /\ QueueOK /\ EntriesGrow /\ sub'[r].placed
  BY <1>1, <1>2, <1>3, MemoryOK DEF Rows, RowStep, PlacedStays
<1>5. host.req = NoOne
  BY <1>1, <1>4, UsedTask DEF HostOK
<1>6. HostOK'
  BY <1>1, <1>4, <1>5, HostStays
<1>7. queue.req # NoOne => sub'[queue.req] = NoSub
  BY <1>3, <1>4 DEF QueueOK
<1>8. LaneOK'
  BY <1>1, <1>4 DEF LaneOK
<1> QED
  BY <1>1, <1>2, <1>3, <1>6, <1>7, <1>8, QueueStays, PassStays, RowType, Together

(* A worker that parks gives up the lane.                                   *)
LEMMA ParkInv ==
  ASSUME IInv, NEW r \in Inputs, Park(r)
  PROVE  IInv'
<1>1. /\ lane = r /\ sub[r].task = "running" /\ sub' = [sub EXCEPT ![r].task = "pending"]
      /\ UNCHANGED tree /\ lane' = NoOne /\ last' = last /\ host' = host /\ queue' = queue
      /\ pass' = pass /\ stops' = stops + 1
  BY DEF Park, Works
<1>2. r # NoOne /\ r \in Requests /\ r \notin Writes /\ sub[r] # NoSub
  BY <1>1, NoOneAssumption, DisjointAssumption, UsedTask DEF Requests
<1>3. sub[r].placed /\ stops' \in Nat /\ Live(r)
  BY <1>1, <1>2, RowType DEF Linked, Live
<1>4. PICK v \in Submission :
        /\ sub' = [sub EXCEPT ![r] = v]
        /\ v.task = "pending" /\ v.status = sub[r].status
        /\ v.placed = sub[r].placed /\ v.entry = sub[r].entry /\ v.target = sub[r].target
        /\ v.seq = sub[r].seq /\ v.text = sub[r].text /\ v.mode = sub[r].mode
  BY <1>1, <1>2, Retask
<1>5. EntriesGrow /\ New = {} /\ Keep
  BY <1>1, TreeStays DEF IInv
<1>6. RowStep(r)
  <2>1. sub'[r] = v
    BY <1>2, <1>4, RowType
  <2> QED
    BY <1>2, <1>3, <1>4, <1>5, <2>1, RowMoves DEF Queued
<1>7. Rows
  BY <1>1, <1>2, <1>4, <1>5, <1>6, OneRow
<1>8. \A s \in Inputs : sub[s] = NoSub => sub'[s] = NoSub
  BY <1>2, <1>4, UsedRow
<1>9. host.req = NoOne
  BY <1>1, <1>2, MemoryOK DEF HostOK
<1>10. HostOK'
  BY <1>1, <1>5, <1>9, HostStays
<1>11. queue.req # NoOne => sub'[queue.req] = NoSub
  BY <1>8, MemoryOK DEF QueueOK
<1>12. LaneOK'
  BY <1>1 DEF LaneOK
<1> QED
  BY <1>1, <1>3, <1>7, <1>10, <1>11, <1>12, QueueStays, PassStays, Together

(* A run leaves the registry.                                               *)
LEMMA ReleaseInv ==
  ASSUME IInv, NEW r \in Inputs, Release(r)
  PROVE  IInv'
<1>1. /\ lane = r /\ host.req # r /\ lane' = NoOne /\ UNCHANGED tree /\ sub' = sub
      /\ last' = last /\ host' = host /\ queue' = queue /\ pass' = pass /\ stops' = stops
  BY DEF Release
<1>2. EntriesGrow /\ New = {} /\ Keep
  BY <1>1, TreeStays DEF IInv
<1>3. Rows
  BY <1>1, <1>2, NoRow
<1>4. host.req = NoOne
  BY <1>1, MemoryOK DEF HostOK
<1>5. HostOK'
  BY <1>1, <1>2, <1>4, HostStays
<1>6. QueueOK'
  BY <1>1, MemoryOK, QueueStays DEF QueueOK
<1>7. LaneOK' /\ stops \in Nat
  BY <1>1, MemoryOK DEF LaneOK, PassOK
<1> QED
  BY <1>1, <1>3, <1>5, <1>6, <1>7, PassStays, Together

(* What a write carries.                                                    *)
LEMMA ContentType ==
  ASSUME IInv, NEW c \in WriteContents
  PROVE  c.show \in BOOLEAN /\ c.marker \in BOOLEAN /\ c.target \in Nat
<1>1. DOMAIN entries \subseteq Nat
  BY DEF IInv, TypeOK
<1>2. CASE \E kind \in WriteKinds \ {"target"}, e \in {0} :
             c = [show |-> kind = "shown", marker |-> kind \in {"reset", "target"}, target |-> e]
  <2>1. PICK kind \in WriteKinds \ {"target"}, e \in {0} :
          c = [show |-> kind = "shown", marker |-> kind \in {"reset", "target"}, target |-> e]
    BY <1>2
  <2>2. /\ c.show = (kind = "shown") /\ c.marker = (kind \in {"reset", "target"})
        /\ c.target = e
    BY <2>1
  <2>3. (kind = "shown") \in BOOLEAN /\ (kind \in {"reset", "target"}) \in BOOLEAN
    OBVIOUS
  <2> QED
    BY <2>2, <2>3
<1>3. CASE \E e \in DOMAIN entries : c = [show |-> FALSE, marker |-> TRUE, target |-> e]
  BY <1>1, <1>3
<1> QED
  BY <1>2, <1>3 DEF WriteContents

(* A new write, queued or placed as entry e.                                *)
LEMMA NewWriteType ==
  ASSUME IInv, NEW c \in WriteContents, NEW status \in {"queued", "done", "closed"}, NEW e \in Nat
  PROVE  /\ NewWrite(c, status, e) \in Submission
         /\ NewWrite(c, status, e).seq = last + 1 /\ NewWrite(c, status, e).status = status
         /\ NewWrite(c, status, e).task = "none" /\ NewWrite(c, status, e).mode = "write"
         /\ e # 0 => NewWrite(c, status, e).placed
         /\ e = 0 => ~NewWrite(c, status, e).placed
         /\ NewWrite(c, status, e).entry = e
         /\ NewWrite(c, status, e).target = c.target
<1>1. last + 1 \in Nat
  BY DEF IInv, TypeOK
<1>2. c.show \in BOOLEAN /\ c.marker \in BOOLEAN /\ c.target \in Nat
  BY ContentType
<1> QED
  BY <1>1, <1>2 DEF Submission, NewWrite

(* A write admitted for later, or too late.                                 *)
LEMMA NewWriteRows ==
  ASSUME IInv, NEW w \in Writes, NEW c \in WriteContents, NEW status \in {"queued", "closed"},
         sub[w] = NoSub, sub' = [sub EXCEPT ![w] = NewWrite(c, status, 0)],
         last' = last + 1, UNCHANGED tree
  PROVE  Rows
<1> DEFINE v == NewWrite(c, status, 0)
<1>1. /\ v \in Submission /\ v.seq = last + 1 /\ v.status = status /\ v.task = "none"
      /\ v.mode = "write" /\ ~v.placed /\ v.entry = 0
  <2>1. 0 \in Nat /\ status \in {"queued", "done", "closed"}
    OBVIOUS
  <2> QED
    BY <2>1, NewWriteType
<1>2. sub' = [sub EXCEPT ![w] = v]
  OBVIOUS
<1> HIDE DEF v
<1>3. w \in Requests /\ w \notin Inputs
  BY DisjointAssumption DEF Requests
<1>4. sub'[w] = v /\ ~sub[w].placed /\ last \in Nat
  BY <1>2, <1>3, RowType, NoSubType
<1>5. EntriesGrow /\ New = {} /\ Keep
  BY TreeStays DEF IInv
<1>6. RowStep(w)
  BY <1>1, <1>3, <1>4 DEF RowStep, PlacedStays, PlacedNow, NotPlaced, RowShape, OnBranch, Queued
<1> QED
  BY <1>1, <1>2, <1>3, <1>5, <1>6, NewRow

(* A write is no input.                                                     *)
LEMMA OtherInputs ==
  ASSUME IInv, NEW w \in Writes, NEW v, sub' = [sub EXCEPT ![w] = v]
  PROVE  \A s \in Inputs : sub[s] = NoSub => sub'[s] = NoSub
BY RowType, DisjointAssumption DEF Requests

(* admit_write, queued.                                                     *)
LEMMA QueueWriteInv ==
  ASSUME IInv, NEW w \in Writes, NEW c \in WriteContents, QueueWrite(w, c)
  PROVE  IInv'
<1>1. PICK status \in {"queued", "closed"} : sub' = [sub EXCEPT ![w] = NewWrite(c, status, 0)]
  BY DEF QueueWrite
<1>2. /\ sub[w] = NoSub /\ last' = last + 1 /\ UNCHANGED tree /\ UNCHANGED memory
      /\ stops' = stops /\ w \in Requests
  BY DEF QueueWrite, Requests
<1>3. Rows
  BY <1>1, <1>2, NewWriteRows
<1> QED
  BY <1>1, <1>2, <1>3, OtherInputs, RowType, StoreStep

(* admit_write, placed at once.                                             *)
LEMMA PlaceWriteInv ==
  ASSUME IInv, NEW w \in Writes, NEW c \in WriteContents, PlaceWrite(w, c)
  PROVE  IInv'
<1>1. /\ sub[w] = NoSub /\ last' = last + 1 /\ UNCHANGED memory /\ stops' = stops
      /\ w \in Requests /\ w \notin Inputs
  BY DisjointAssumption DEF PlaceWrite, Requests
<1>2. CASE TooLate(c)
  <2>1. sub' = [sub EXCEPT ![w] = NewWrite(c, "closed", 0)] /\ UNCHANGED tree
    BY <1>2 DEF PlaceWrite
  <2>2. Rows
    BY <1>1, <2>1, NewWriteRows
  <2> QED
    BY <1>1, <2>1, <2>2, OtherInputs, RowType, StoreStep
<1>3. CASE ~TooLate(c)
  <2>1. /\ AppendEntries(<<Draft(NoOne, "write", 0, c.marker)>>)
        /\ sub' = [sub EXCEPT ![w] = NewWrite(c, "done", head')]
    BY <1>3 DEF PlaceWrite
  <2>2. /\ EntriesGrow /\ Keep /\ New = {head'}
        /\ Path(head) \subseteq entries'[head'].path
        /\ entries'[head'].by = NoOne
    <3>1. /\ TypeOK /\ NoOne \in Inputs \union {NoOne} /\ 0 \in Nat /\ c.marker \in BOOLEAN
          /\ "write" \in {"user", "message", "note", "write"}
      BY ContentType DEF IInv
    <3> QED
      BY <2>1, <3>1, OneDraft
  <2>3. head' \in Nat /\ head' # 0
    BY <2>2 DEF New, EntriesGrow
  <2> DEFINE v == NewWrite(c, "done", head')
  <2>4. /\ v \in Submission /\ v.seq = last + 1 /\ v.status = "done" /\ v.task = "none"
        /\ v.mode = "write" /\ v.placed /\ v.entry = head' /\ v.target = c.target
    BY <2>3, NewWriteType
  <2>5. sub' = [sub EXCEPT ![w] = v]
    BY <2>1
  <2> HIDE DEF v
  <2>6. sub'[w] = v /\ ~sub[w].placed /\ last \in Nat
    BY <1>1, <2>5, RowType, NoSubType
  <2>7. PlacedNow(w)
    <3>1. v.target # 0 => v.target \in Path(head)
      BY <1>3, <2>4 DEF TooLate, Visible
    <3>2. sub'[w].entry = head' /\ sub'[w].target = v.target
      BY <2>4, <2>6
    <3> QED
      BY <1>1, <2>2, <3>1, <3>2 DEF PlacedNow
  <2>8. RowStep(w)
    BY <1>1, <2>4, <2>6, <2>7
       DEF RowStep, PlacedStays, NotPlaced, RowShape, OnBranch, Queued
  <2>9. \A e \in New : EntryStep(e)
    BY <2>2 DEF EntryStep
  <2>10. Rows
    BY <1>1, <2>2, <2>4, <2>5, <2>8, <2>9, NewRow
  <2> QED
    BY <1>1, <2>5, <2>10, OtherInputs, RowType, StoreStep
<1> QED
  BY <1>2, <1>3

(* A branch is selected while nothing is live.                              *)
LEMMA SelectBranchInv ==
  ASSUME IInv, NEW e \in DOMAIN entries, SelectBranch(e)
  PROVE  IInv'
<1>1. /\ \A r \in Inputs : ~Live(r)
      /\ head' = e /\ rev' = rev + 1 /\ entries' = entries /\ sub' = sub /\ last' = last
      /\ UNCHANGED memory /\ stops' = stops
  BY DEF SelectBranch
<1>2. /\ entries \in Seq(Entry) /\ Len(entries) \in Nat /\ DOMAIN entries = 1..Len(entries)
      /\ rev \in Nat /\ stops \in Nat
  BY DEF IInv, TypeOK
<1>3. EntriesGrow /\ New = {} /\ Keep
  BY <1>1, <1>2 DEF EntriesGrow, New, Keep
<1>4. Rows
  BY <1>1, <1>3, NoRow
<1> QED
  BY <1>1, <1>2, <1>4, StoreStep

(* A message or a note of a run whose input is on the branch.               *)
LEMMA SaidBelow ==
  ASSUME IInv, NEW r \in Inputs, sub[r].placed, sub[r].entry \in Path(head),
         NEW kind \in {"message", "note"},
         AppendEntries(<<Draft(r, kind, 0, FALSE)>>),
         sub'[r].placed, sub'[r].entry = sub[r].entry
  PROVE  EntriesGrow /\ Keep /\ \A e \in New : EntryStep(e)
<1>1. /\ TypeOK /\ r \in Inputs \union {NoOne} /\ 0 \in Nat /\ FALSE \in BOOLEAN
      /\ kind \in {"user", "message", "note", "write"}
  BY DEF IInv
<1>2. /\ EntriesGrow /\ Keep /\ New = {head'}
      /\ Path(head) \subseteq entries'[head'].path
      /\ entries'[head'].by = r /\ entries'[head'].kind = kind
  BY <1>1, OneDraft
<1>3. \A e \in New : EntryStep(e)
  BY <1>2 DEF EntryStep
<1> QED
  BY <1>2, <1>3

(* A late event of a run.                                                   *)
LEMMA DisplayInv ==
  ASSUME IInv, NEW r \in Inputs, Display(r)
  PROVE  IInv'
<1>1. /\ sub[r].entry \in Path(head) /\ sub' = sub /\ last' = last /\ UNCHANGED memory
      /\ stops' = stops /\ AppendEntries(<<Draft(r, "note", 0, FALSE)>>)
  BY DEF Display, Visible
<1>2. r \in Requests /\ r # NoOne
  BY NoOneAssumption DEF Requests
<1>3. sub[r].placed
  <2>1. PICK e \in DOMAIN entries : entries[e].by = r
    BY DEF Display
  <2> QED
    BY <1>2, <2>1 DEF IInv, Links
<1>4. EntriesGrow /\ Keep /\ \A e \in New : EntryStep(e)
  BY <1>1, <1>3, SaidBelow
<1>5. Rows
  BY <1>1, <1>4, NoRow
<1> QED
  BY <1>1, <1>2, <1>5, RowType, StoreStep

(* The answer and the end of the task.                                      *)
LEMMA CompleteInv ==
  ASSUME IInv, NEW r \in Inputs, Complete(r)
  PROVE  IInv'
<1>1. /\ sub[r].task = "running" /\ AppendEntries(<<Draft(r, "message", 0, FALSE)>>)
      /\ sub' = [sub EXCEPT ![r].task = "completed", ![r].status = "done"]
      /\ last' = last /\ UNCHANGED memory /\ stops' = stops
  BY DEF Complete, Works
<1>2. r \in Requests /\ r \notin Writes /\ sub[r] # NoSub
  BY <1>1, DisjointAssumption, UsedTask DEF Requests
<1>3. sub[r].placed /\ sub[r].entry \in Path(head)
  BY <1>1, <1>2, RowType DEF Linked, IInv, LiveOnBranch, Live
<1> DEFINE v == [sub[r] EXCEPT !.task = "completed", !.status = "done"]
<1>4. /\ sub' = [sub EXCEPT ![r] = v] /\ v \in Submission
      /\ v.task = "completed" /\ v.status = "done"
      /\ v.placed = sub[r].placed /\ v.entry = sub[r].entry /\ v.target = sub[r].target
      /\ v.seq = sub[r].seq /\ v.text = sub[r].text /\ v.mode = sub[r].mode
  <2>1. sub \in [Requests -> Submission] /\ sub[r] \in Submission
    BY <1>2, RowType
  <2>2. sub' = [sub EXCEPT ![r] = v]
    BY <1>1, <2>1
  <2>3. /\ v \in Submission /\ v.task = "completed" /\ v.status = "done"
        /\ v.placed = sub[r].placed /\ v.entry = sub[r].entry /\ v.target = sub[r].target
        /\ v.seq = sub[r].seq /\ v.text = sub[r].text /\ v.mode = sub[r].mode
    BY <2>1 DEF Submission
  <2> QED
    BY <2>2, <2>3
<1> HIDE DEF v
<1>5. sub'[r] = v
  BY <1>2, <1>4, RowType
<1>6. EntriesGrow /\ Keep /\ \A e \in New : EntryStep(e)
  BY <1>1, <1>3, <1>4, <1>5, SaidBelow
<1>7. RowStep(r)
  BY <1>2, <1>3, <1>4, <1>5, <1>6, RowMoves DEF Queued, Live
<1>8. Rows
  BY <1>1, <1>2, <1>4, <1>6, <1>7, OneRow
<1> QED
  BY <1>1, <1>2, <1>4, <1>8, UsedRow, RowType, StoreStep

(* The process dies: rows keep their place, the memory is gone.             *)
LEMMA CrashInv ==
  ASSUME IInv, Crash
  PROVE  IInv'
<1>1. /\ sub' = [r \in Requests |->
                   [sub[r] EXCEPT !.task = IF @ = "running" THEN "pending" ELSE @]]
      /\ lane' = NoOne /\ host' = HostIdle /\ queue' = QueueIdle /\ pass' = PassIdle
      /\ stops' = stops + 1 /\ UNCHANGED tree /\ last' = last
  BY DEF Crash
<1>2. EntriesGrow /\ New = {} /\ Keep
  BY <1>1, TreeStays DEF IInv
<1>3. ASSUME NEW r \in Requests
      PROVE  sub'[r] \in Submission /\ RowStep(r) /\ sub'[r].seq = sub[r].seq
  <2>1. sub[r] \in Submission /\ Linked(r)
    BY RowType
  <2>2. CASE sub[r].task = "running"
    <3>1. sub'[r] = [sub[r] EXCEPT !.task = "pending"]
      BY <1>1, <2>2
    <3>2. /\ sub'[r] \in Submission /\ sub'[r].task = "pending"
          /\ sub'[r].status = sub[r].status /\ sub'[r].placed = sub[r].placed
          /\ sub'[r].entry = sub[r].entry /\ sub'[r].target = sub[r].target
          /\ sub'[r].seq = sub[r].seq /\ sub'[r].text = sub[r].text
          /\ sub'[r].mode = sub[r].mode
      BY <2>1, <3>1 DEF Submission
    <3>3. sub[r].placed /\ r \notin Writes /\ Live(r)
      BY <2>1, <2>2 DEF Linked, Live
    <3>4. RowStep(r)
      BY <1>2, <3>2, <3>3, RowMoves DEF Queued
    <3> QED
      BY <3>2, <3>4
  <2>3. CASE sub[r].task # "running"
    <3>1. sub'[r] = sub[r]
      BY <1>1, <2>1, <2>3 DEF Submission
    <3> QED
      BY <1>2, <2>1, <3>1, RowStays
  <2> QED
    BY <2>2, <2>3
<1>4. sub' \in [Requests -> Submission]
  BY <1>1, <1>3
<1>5. Rows
  BY <1>1, <1>2, <1>3, <1>4 DEF Rows, SeqStep
<1>6. LaneOK' /\ PassOK'
  <2>1. stops \in Nat
    BY DEF IInv, TypeOK
  <2>2. PassIdle \in [pc : {"idle", "writes", "place"}, busy : BOOLEAN, todo : SUBSET Writes]
    BY DEF PassIdle
  <2> QED
    BY <1>1, <2>1, <2>2 DEF LaneOK, PassOK
<1> QED
  BY <1>1, <1>2, <1>5, <1>6, HostRests, QueueRests, Together
(* A task nobody runs is cancelled.                                         *)
LEMMA CancelInv ==
  ASSUME IInv, NEW r \in Inputs, Cancel(r)
  PROVE  IInv'
BY CloseRow DEF Cancel

(* A run that fails or is cancelled.                                        *)
LEMMA CloseInv ==
  ASSUME IInv, NEW r \in Inputs, Close(r)
  PROVE  IInv'
BY CloseRow DEF Close, Works

(* A step of the scheduler's pass leaves host, queue and lane alone.        *)
LEMMA PassStep ==
  ASSUME IInv, Rows, lane' = lane, host' = host, queue' = queue, stops' = stops, PassOK',
         \A s \in Inputs : sub[s] = NoSub => sub'[s] = NoSub
  PROVE  IInv'
<1>1. HostOK /\ QueueOK /\ EntriesGrow
  BY MemoryOK DEF Rows
<1>2. host.req # NoOne => host.req \in Inputs /\ sub[host.req] = NoSub /\ queue.req # host.req
  BY <1>1 DEF HostOK
<1>3. queue.req # NoOne => queue.req \in Inputs /\ sub[queue.req] = NoSub
  BY <1>1 DEF QueueOK
<1>4. HostOK'
  BY <1>1, <1>2, HostStays
<1>5. QueueOK'
  BY <1>3, QueueStays
<1> QED
  BY <1>4, <1>5, LaneStays, Together

(* The pass reads.                                                          *)
LEMMA PassReadInv ==
  ASSUME IInv, PassRead
  PROVE  IInv'
<1>1. /\ UNCHANGED tree /\ sub' = sub /\ last' = last /\ lane' = lane /\ host' = host
      /\ queue' = queue /\ stops' = stops
      /\ pass' = [pc |-> "writes", busy |-> Active, todo |-> InboxItems \intersect Writes]
  BY DEF PassRead
<1>2. Rows
  BY <1>1, TreeStays, NoRow DEF IInv
<1>3. Active \in BOOLEAN
  BY DEF Active
<1>4. PassOK'
  <2>1. stops \in Nat
    BY DEF IInv, TypeOK
  <2> QED
    BY <1>1, <1>3, <2>1 DEF PassOK
<1> QED
  BY <1>1, <1>2, <1>4, PassStep

(* The pass looks again.                                                    *)
LEMMA PassCheckInv ==
  ASSUME IInv, PassCheck
  PROVE  IInv'
<1>1. /\ UNCHANGED tree /\ sub' = sub /\ last' = last /\ lane' = lane /\ host' = host
      /\ queue' = queue /\ stops' = stops
      /\ pass' \in {[pass EXCEPT !.pc = "place"], PassIdle}
  BY DEF PassCheck
<1>2. Rows
  BY <1>1, TreeStays, NoRow DEF IInv
<1>3. PassOK'
  <2>1. PassOK
    BY MemoryOK
  <2>2. PassIdle \in [pc : {"idle", "writes", "place"}, busy : BOOLEAN, todo : SUBSET Writes]
    BY DEF PassIdle
  <2>3. [pass EXCEPT !.pc = "place"]
          \in [pc : {"idle", "writes", "place"}, busy : BOOLEAN, todo : SUBSET Writes]
    BY <2>1 DEF PassOK
  <2> QED
    BY <1>1, <2>1, <2>2, <2>3 DEF PassOK
<1> QED
  BY <1>1, <1>2, <1>3, PassStep
-----------------------------------------------------------------------------
(* Placement.                                                              *)

(* An arranged batch is a sequence without repetition.                      *)
LEMMA ArrangedFacts ==
  ASSUME IInv, NEW S \in SUBSET Requests, NEW b \in Arranged(S)
  PROVE  /\ Len(b) \in Nat /\ DOMAIN b = 1..Len(b)
         /\ \A i \in 1..Len(b) : b[i] \in S
         /\ \A i, j \in 1..Len(b) : b[i] = b[j] => i = j
<1>1. IsFiniteSet(S)
  BY FiniteAssumption, FS_Subset
<1>2. PICK n \in Nat : n = Cardinality(S)
  BY <1>1, FS_CardinalityType
<1>3. b \in [1..n -> S] /\ \A i, j \in 1..n : i < j => Before(b[i], b[j])
  BY <1>2 DEF Arranged
<1>4. b \in Seq(S) /\ Len(b) = n /\ DOMAIN b = 1..n
  BY <1>3
<1>5. \A r \in Requests : ~Before(r, r)
  <2> TAKE r \in Requests
  <2>1. sub[r].seq \in Nat
    BY RowType DEF Submission
  <2> QED
    BY <2>1, DisjointAssumption DEF Before
<1>6. ASSUME NEW i \in 1..n, NEW j \in 1..n, b[i] = b[j]
      PROVE  i = j
  <2>1. b[i] \in Requests /\ ~(i < j) /\ ~(j < i)
    BY <1>3, <1>5, <1>6
  <2> QED
    BY <2>1
<1> QED
  BY <1>3, <1>4, <1>6

(* The draft of a submission.                                               *)
LEMMA InputDraftType ==
  ASSUME IInv, NEW r \in Requests
  PROVE  /\ InputDraft(r) \in DraftRecord
         /\ r \in Inputs => /\ InputDraft(r).by = r /\ InputDraft(r).kind = "user"
                            /\ InputDraft(r).text = sub[r].text
         /\ r \notin Inputs => InputDraft(r).by = NoOne
<1>1. sub[r].text \in Nat /\ sub[r].marker \in BOOLEAN
  BY RowType DEF Submission
<1> QED
  BY <1>1 DEF InputDraft, Draft, DraftRecord

InputDrafts(b) == [i \in DOMAIN b |-> InputDraft(b[i])]

(* The drafts of a batch.                                                   *)
LEMMA BatchDrafts ==
  ASSUME IInv, NEW b, Len(b) \in Nat, DOMAIN b = 1..Len(b),
         \A i \in 1..Len(b) : b[i] \in Requests
  PROVE  /\ InputDrafts(b) \in Drafts /\ Len(InputDrafts(b)) = Len(b)
         /\ \A i \in 1..Len(b) : InputDrafts(b)[i] = InputDraft(b[i])
<1>1. \A i \in 1..Len(b) : InputDraft(b[i]) \in DraftRecord
  BY InputDraftType
<1>2. InputDrafts(b) = [i \in 1..Len(b) |-> InputDraft(b[i])]
  BY DEF InputDrafts
<1> QED
  BY <1>1, <1>2 DEF Drafts

(* A row that waits and is placed as entry e.                               *)
LEMMA PlacedType ==
  ASSUME IInv, NEW r \in InboxItems, NEW e \in Nat, NEW consumer
  PROVE  /\ Placed(r, e, consumer) \in Submission
         /\ Placed(r, e, consumer).placed /\ Placed(r, e, consumer).entry = e
         /\ Placed(r, e, consumer).text = sub[r].text
         /\ Placed(r, e, consumer).target = sub[r].target
         /\ Placed(r, e, consumer).seq = sub[r].seq
         /\ Placed(r, e, consumer).mode = sub[r].mode
         /\ Placed(r, e, consumer).status \in {"done", "queued"}
         /\ Placed(r, e, consumer).task \in {"completed", sub[r].task}
         /\ r \in Writes => Placed(r, e, consumer).task = sub[r].task
<1>1. r \in Requests /\ sub[r] \in Submission /\ Linked(r) /\ sub[r].status = "queued"
  BY RowType DEF InboxItems, Queued
<1> DEFINE consumed == IsSteer(r) /\ consumer # NoOne
           st == IF consumed \/ r \in Writes THEN "done" ELSE sub[r].status
           tk == IF consumed THEN "completed" ELSE sub[r].task
<1>2. r \in Writes => ~consumed
  BY <1>1 DEF Linked, IsSteer
<1>3. st \in {"done", "queued"} /\ tk \in {"completed", sub[r].task}
      /\ (r \in Writes => tk = sub[r].task)
  BY <1>1, <1>2
<1>4. Placed(r, e, consumer) =
        [sub[r] EXCEPT !.placed = TRUE, !.entry = e, !.status = st, !.task = tk]
  BY DEF Placed
<1> HIDE DEF consumed, st, tk
<1>5. tk \in {"none", "pending", "running", "completed", "closed"}
  BY <1>1, <1>3 DEF Submission
<1> QED
  BY <1>1, <1>3, <1>4, <1>5 DEF Submission
(* A submission of the batch is placed: its entry is new and says what the  *)
(* submission says; a write's target is on the path.                        *)
LEMMA PlacedRow ==
  ASSUME IInv, EntriesGrow, NEW r \in InboxItems, ~Stale(r), NEW consumer, NEW e \in New, e \in Nat,
         sub'[r] = Placed(r, e, consumer),
         e \in Path(head)', Path(head) \subseteq entries'[e].path,
         r \in Inputs => /\ entries'[e].by = r /\ entries'[e].kind = "user"
                         /\ entries'[e].text = sub[r].text
  PROVE  RowStep(r) /\ sub'[r] \in Submission /\ sub'[r].seq = sub[r].seq
<1>1. r \in Requests /\ sub[r] \in Submission /\ Linked(r) /\ sub[r].status = "queued"
      /\ ~sub[r].placed
  BY RowType DEF InboxItems, Queued
<1>2. /\ sub'[r] \in Submission /\ sub'[r].placed /\ sub'[r].entry = e
      /\ sub'[r].text = sub[r].text /\ sub'[r].target = sub[r].target
      /\ sub'[r].seq = sub[r].seq /\ sub'[r].mode = sub[r].mode
      /\ sub'[r].status \in {"done", "queued"}
      /\ sub'[r].task \in {"completed", sub[r].task}
      /\ r \in Writes => sub'[r].task = sub[r].task
  BY PlacedType
<1>3. sub[r].target # 0 => sub[r].target \in Path(head)
  BY DEF Stale, Visible
<1>4. PlacedStays(r) /\ NotPlaced(r)
  BY <1>1, <1>2 DEF PlacedStays, NotPlaced
<1>5. PlacedNow(r)
  BY <1>2, <1>3 DEF PlacedNow
<1>6. RowShape(r)
  BY <1>1, <1>2 DEF RowShape, Linked, Queued
<1>7. OnBranch(r)
  BY <1>2 DEF OnBranch
<1> QED
  BY <1>2, <1>4, <1>5, <1>6, <1>7 DEF RowStep

(* A stale write is settled.                                                *)
LEMMA StaleRow ==
  ASSUME IInv, Keep, NEW r \in InboxItems, Stale(r),
         sub'[r] = [sub[r] EXCEPT !.status = "closed"]
  PROVE  RowStep(r) /\ sub'[r] \in Submission /\ sub'[r].seq = sub[r].seq /\ r \notin Inputs
<1>1. r \in Requests /\ sub[r] \in Submission /\ Linked(r) /\ ~sub[r].placed
  BY RowType DEF InboxItems, Queued
<1>2. r \notin Inputs /\ r \in Writes /\ sub[r].task = "none" /\ sub[r].mode \in {"none", "write"}
  BY <1>1 DEF Linked, Stale, Requests
<1>3. /\ sub'[r] \in Submission /\ sub'[r].placed = sub[r].placed
      /\ sub'[r].entry = sub[r].entry /\ sub'[r].target = sub[r].target
      /\ sub'[r].seq = sub[r].seq /\ sub'[r].text = sub[r].text /\ sub'[r].task = sub[r].task
      /\ sub'[r].mode = sub[r].mode /\ sub'[r].status = "closed"
  BY <1>1 DEF Submission
<1>4. RowStep(r)
  BY <1>1, <1>2, <1>3, RowMoves DEF Queued, Live
<1> QED
  BY <1>2, <1>3, <1>4

(* A commit that places a batch below what a run of the branch said.        *)
LEMMA PlaceBatchRows ==
  ASSUME IInv, NEW said \in Drafts, NEW batch \in SUBSET InboxItems, NEW consumer,
         \A i \in 1..Len(said) :
           /\ said[i].by \in Inputs /\ said[i].kind # "user"
           /\ sub[said[i].by].placed /\ sub[said[i].by].entry \in Path(head),
         PlaceBatch(said, batch, consumer), last' = last
  PROVE  /\ Rows
         /\ \A s \in Inputs : sub[s] = NoSub => sub'[s] = NoSub
         /\ \A s \in Inputs : Queued(s) /\ sub'[s].placed => s \in batch
<1> DEFINE stale == {r \in batch : Stale(r)}
           S == batch \ stale
<1>1. PICK b \in Arranged(S) :
        /\ AppendEntries(said \o [i \in DOMAIN b |-> InputDraft(b[i])])
        /\ sub' = [r \in Requests |->
                     IF r \in Members(b)
                     THEN Placed(r, Len(entries) + Len(said) +
                                      (CHOOSE i \in DOMAIN b : b[i] = r), consumer)
                     ELSE IF r \in stale THEN [sub[r] EXCEPT !.status = "closed"]
                     ELSE sub[r]]
  BY DEF PlaceBatch
<1>2. S \in SUBSET Requests /\ InboxItems \subseteq Requests
  BY DEF InboxItems
<1>3. /\ Len(b) \in Nat /\ DOMAIN b = 1..Len(b)
      /\ \A i \in 1..Len(b) : b[i] \in S
      /\ \A i, j \in 1..Len(b) : b[i] = b[j] => i = j
  <2> HIDE DEF S
  <2> QED
    BY <1>2, ArrangedFacts
<1>4. PICK drafts : drafts = said \o InputDrafts(b)
  OBVIOUS
<1>5. /\ drafts \in Drafts /\ Len(said) \in Nat
      /\ Len(drafts) = Len(said) + Len(b)
      /\ \A i \in 1..Len(said) : drafts[i] = said[i]
      /\ \A i \in 1..Len(b) : drafts[Len(said) + i] = InputDraft(b[i])
  <2>1. \A i \in 1..Len(b) : b[i] \in Requests
    BY <1>2, <1>3
  <2>2. /\ InputDrafts(b) \in Drafts /\ Len(InputDrafts(b)) = Len(b)
        /\ \A i \in 1..Len(b) : InputDrafts(b)[i] = InputDraft(b[i])
    BY <1>3, <2>1, BatchDrafts
  <2>3. PICK d \in Seq(DraftRecord) : d = InputDrafts(b)
    BY <2>2 DEF Drafts
  <2>4. said \in Seq(DraftRecord)
    BY DEF Drafts
  <2>5. /\ said \o d \in Seq(DraftRecord) /\ Len(said) \in Nat
        /\ Len(said \o d) = Len(said) + Len(d)
        /\ \A i \in 1..Len(said) : (said \o d)[i] = said[i]
        /\ \A i \in 1..Len(d) : (said \o d)[Len(said) + i] = d[i]
    BY <2>4
  <2> QED
    BY <1>4, <2>2, <2>3, <2>5 DEF Drafts
<1>6. /\ EntriesGrow /\ Keep
      /\ New = (Len(entries) + 1)..(Len(entries) + Len(drafts))
      /\ \A e \in New : e \in Path(head)'
      /\ \A e \in New : Path(head) \subseteq entries'[e].path /\ e \in entries'[e].path
      /\ \A i \in 1..Len(drafts) :
           /\ entries'[Len(entries) + i].by = drafts[i].by
           /\ entries'[Len(entries) + i].kind = drafts[i].kind
           /\ entries'[Len(entries) + i].text = drafts[i].text
  <2>1. AppendEntries(drafts) /\ TypeOK
    BY <1>1, <1>4 DEF IInv, InputDrafts
  <2> QED
    BY <1>5, <2>1, TreeGrows
<1>7. Len(entries) \in Nat
  BY DEF IInv, TypeOK
<1>8. ASSUME NEW k \in 1..Len(b)
      PROVE  /\ b[k] \in S /\ b[k] \in Requests
             /\ Len(entries) + Len(said) + k \in New
             /\ sub'[b[k]] = Placed(b[k], Len(entries) + Len(said) + k, consumer)
             /\ entries'[Len(entries) + Len(said) + k].by = InputDraft(b[k]).by
             /\ entries'[Len(entries) + Len(said) + k].kind = InputDraft(b[k]).kind
             /\ entries'[Len(entries) + Len(said) + k].text = InputDraft(b[k]).text
  <2>1. b[k] \in S /\ b[k] \in Requests /\ b[k] \in Members(b)
    BY <1>2, <1>3 DEF Members
  <2>2. (CHOOSE i \in DOMAIN b : b[i] = b[k]) = k
    BY <1>3
  <2>3. sub'[b[k]] = Placed(b[k], Len(entries) + Len(said) + k, consumer)
    BY <1>1, <2>1, <2>2
  <2>4. Len(said) + k \in 1..Len(drafts)
        /\ Len(entries) + (Len(said) + k) = Len(entries) + Len(said) + k
        /\ Len(entries) + Len(said) + k \in New
    BY <1>3, <1>5, <1>6, <1>7
  <2>5. drafts[Len(said) + k] = InputDraft(b[k])
    BY <1>5
  <2> HIDE DEF S
  <2> QED
    BY <1>6, <2>1, <2>3, <2>4, <2>5
<1>9. ASSUME NEW r \in Requests, r \in Members(b)
      PROVE  RowStep(r) /\ sub'[r] \in Submission /\ sub'[r].seq = sub[r].seq
  <2>1. PICK k \in 1..Len(b) : b[k] = r
    BY <1>3, <1>9 DEF Members
  <2>2. r \in InboxItems /\ ~Stale(r)
    BY <1>8, <2>1
  <2>3. PICK e \in New : e = Len(entries) + Len(said) + k
    BY <1>8
  <2>4. e \in Nat
    BY <1>5, <1>7, <2>3
  <2>5. /\ sub'[r] = Placed(r, e, consumer)
        /\ r \in Inputs => /\ entries'[e].by = r /\ entries'[e].kind = "user"
                           /\ entries'[e].text = sub[r].text
    BY <1>8, <2>1, <2>3, InputDraftType
  <2> QED
    BY <1>6, <2>2, <2>4, <2>5, PlacedRow
<1>10. ASSUME NEW r \in Requests, r \notin Members(b), r \in stale
       PROVE  RowStep(r) /\ sub'[r] \in Submission /\ sub'[r].seq = sub[r].seq /\ r \notin Inputs
  <2>1. sub'[r] = [sub[r] EXCEPT !.status = "closed"] /\ r \in InboxItems /\ Stale(r)
    BY <1>1, <1>10
  <2> QED
    BY <1>6, <2>1, StaleRow
<1>11. ASSUME NEW r \in Requests, r \notin Members(b), r \notin stale
       PROVE  sub'[r] = sub[r] /\ RowStep(r) /\ sub'[r] \in Submission
  <2>1. sub'[r] = sub[r]
    BY <1>1, <1>11
  <2> QED
    BY <1>6, <2>1, RowStays, RowType
<1> HIDE DEF stale, S
<1>12. \A r \in Requests : RowStep(r) /\ sub'[r] \in Submission /\ sub'[r].seq = sub[r].seq
  BY <1>9, <1>10, <1>11
<1>13. sub' \in [Requests -> Submission]
  BY <1>1, <1>12
<1>14. ASSUME NEW e \in New
       PROVE  EntryStep(e)
  <2>1. PICK i \in 1..Len(drafts) : e = Len(entries) + i
    <3>1. e - Len(entries) \in 1..Len(drafts) /\ e = Len(entries) + (e - Len(entries))
      BY <1>3, <1>5, <1>6, <1>7
    <3> QED
      BY <3>1
  <2>2. CASE i \in 1..Len(said)
    <3>1. PICK q \in Inputs : q = said[i].by
      BY <2>2
    <3>2. entries'[e].by = q /\ entries'[e].kind # "user" /\ sub[q].placed
          /\ sub[q].entry \in entries'[e].path
      BY <1>5, <1>6, <2>1, <2>2, <3>1
    <3>3. sub'[q].placed /\ sub'[q].entry = sub[q].entry
      BY <1>12, <3>2 DEF RowStep, PlacedStays, Requests
    <3> QED
      BY <3>2, <3>3 DEF EntryStep
  <2>3. CASE i \notin 1..Len(said)
    <3>1. PICK k \in 1..Len(b) : i = Len(said) + k
      <4>1. i - Len(said) \in 1..Len(b) /\ i = Len(said) + (i - Len(said))
        BY <1>3, <1>5, <2>3
      <4> QED
        BY <4>1
    <3>2. e = Len(entries) + Len(said) + k
      BY <1>5, <1>7, <2>1, <3>1
    <3>3. /\ b[k] \in InboxItems /\ b[k] \in Requests
          /\ sub'[b[k]] = Placed(b[k], e, consumer)
          /\ entries'[e].by = InputDraft(b[k]).by
      BY <1>8, <3>2 DEF S
    <3>4. e \in Nat
      BY <1>5, <1>7, <3>2
    <3>5. sub'[b[k]].placed /\ sub'[b[k]].entry = e /\ ~sub[b[k]].placed
      BY <3>3, <3>4, PlacedType DEF InboxItems, Queued
    <3>6. entries'[e].by # NoOne => entries'[e].by = b[k]
      BY <3>3, InputDraftType
    <3> QED
      BY <1>6, <3>5, <3>6 DEF EntryStep
  <2> QED
    BY <2>2, <2>3
<1>15. SeqStep
  BY <1>12 DEF SeqStep
<1>16. Rows
  BY <1>6, <1>12, <1>13, <1>14, <1>15 DEF Rows
<1>17. \A s \in Requests : s \in Members(b) => s \in InboxItems /\ s \in batch
  BY <1>3, <1>8 DEF Members, S
<1>18. \A s \in Inputs : sub[s] = NoSub => sub'[s] = NoSub
  <2> SUFFICES ASSUME NEW s \in Inputs, sub[s] = NoSub
               PROVE  sub'[s] = sub[s]
    OBVIOUS
  <2>1. s \in Requests /\ s \notin InboxItems
    BY NoSubType DEF InboxItems, Queued, Requests
  <2> QED
    BY <1>11, <1>17, <2>1 DEF stale
<1>19. \A s \in Inputs : Queued(s) /\ sub'[s].placed => s \in batch
  <2> SUFFICES ASSUME NEW s \in Inputs, Queued(s), sub'[s].placed, s \notin batch
               PROVE  FALSE
    OBVIOUS
  <2>1. s \in Requests /\ ~sub[s].placed
    BY DEF Queued, Requests
  <2> QED
    BY <1>11, <1>17, <2>1 DEF stale
<1> QED
  BY <1>16, <1>18, <1>19
(* A boundary takes queued submissions.                                     *)
LEMMA BoundaryTakes ==
  ASSUME NEW at, NEW consumer
  PROVE  BoundaryWrites(at) \union User(at, consumer) \in SUBSET InboxItems
BY DEF BoundaryWrites, User, Oldest, Steers, FollowUps

(* Nothing said.                                                            *)
LEMMA NothingSaid == \E said \in Drafts : said = <<>> /\ Len(said) = 0
<1>1. <<>> \in Drafts /\ Len(<<>>) = 0
  BY DEF Drafts
<1> QED
  BY <1>1, Zenon

(* What a boundary of a run says and places, as one commit.                 *)
LEMMA BoundaryPlaces ==
  ASSUME IInv, NEW r \in Inputs, NEW at, Boundary(r, at)
  PROVE  /\ Rows
         /\ \A s \in Inputs : sub[s] = NoSub => sub'[s] = NoSub
         /\ \A s \in Inputs : Queued(s) /\ sub'[s].placed
              => s \in BoundaryWrites(at) \union User(at, r)
<1> DEFINE batch == BoundaryWrites(at) \union User(at, r)
<1>1. /\ sub[r].task = "running" /\ last' = last
      /\ \/ PlaceBatch(<<Draft(r, "message", 0, FALSE)>>, batch, r)
         \/ PlaceBatch(<<>>, batch, r)
  BY DEF Boundary, Works, PlaceBoundary
<1>2. batch \in SUBSET InboxItems
  BY BoundaryTakes
<1> HIDE DEF batch
<1>3. sub[r].placed /\ sub[r].entry \in Path(head)
  BY <1>1, RowType DEF Linked, IInv, LiveOnBranch, Live, Requests
<1>4. CASE PlaceBatch(<<Draft(r, "message", 0, FALSE)>>, batch, r)
  <2>1. PICK d \in DraftRecord :
          d = Draft(r, "message", 0, FALSE) /\ d.by = r /\ d.kind = "message"
    <3> DEFINE d == Draft(r, "message", 0, FALSE)
    <3>1. d \in DraftRecord /\ d.by = r /\ d.kind = "message"
      BY DEF Draft, DraftRecord
    <3>2. d = Draft(r, "message", 0, FALSE)
      OBVIOUS
    <3> HIDE DEF d
    <3> QED
      BY <3>1, <3>2, Zenon
  <2>2. <<d>> \in Drafts /\ Len(<<d>>) = 1 /\ <<d>>[1] = d
    BY DEF Drafts
  <2>3. PICK said \in Drafts : said = <<d>>
    BY <2>2
  <2>4. Len(said) = 1 /\ said[1] = d
    BY <2>2, <2>3
  <2>5. \A i \in 1..Len(said) : said[i] = d
    BY <2>4
  <2>6. \A i \in 1..Len(said) :
          /\ said[i].by \in Inputs /\ said[i].kind # "user"
          /\ sub[said[i].by].placed /\ sub[said[i].by].entry \in Path(head)
    BY <1>3, <2>1, <2>5
  <2>7. PlaceBatch(said, batch, r)
    BY <1>4, <2>1, <2>3
  <2> QED
    BY <1>1, <1>2, <2>6, <2>7, PlaceBatchRows DEF batch
<1>5. CASE PlaceBatch(<<>>, batch, r)
  <2>1. PICK said \in Drafts : said = <<>> /\ Len(said) = 0
    BY NothingSaid
  <2>2. PlaceBatch(said, batch, r) /\ 1..Len(said) = {}
    BY <1>5, <2>1
  <2> QED
    BY <1>1, <1>2, <2>2, PlaceBatchRows DEF batch
<1> QED
  BY <1>1, <1>4, <1>5

(* A boundary of a run.                                                     *)
LEMMA BoundaryInv ==
  ASSUME IInv, NEW r \in Inputs, NEW at, Boundary(r, at)
  PROVE  IInv'
<1>1. UNCHANGED memory /\ stops' \in Nat
  BY DEF Boundary, IInv, TypeOK
<1> QED
  BY <1>1, BoundaryPlaces, StoreStep

(* A batch placed for no run.                                               *)
LEMMA SilentPlaces ==
  ASSUME IInv, NEW batch \in SUBSET InboxItems, PlaceBatch(<<>>, batch, NoOne), last' = last
  PROVE  /\ Rows
         /\ \A s \in Inputs : sub[s] = NoSub => sub'[s] = NoSub
         /\ \A s \in Inputs : Queued(s) /\ sub'[s].placed => s \in batch
<1>1. PICK said \in Drafts : said = <<>> /\ Len(said) = 0
  BY NothingSaid
<1>2. PlaceBatch(said, batch, NoOne) /\ 1..Len(said) = {}
  BY <1>1
<1> QED
  BY <1>2, PlaceBatchRows

(* The pass places one write, or skips it; no input is placed.              *)
LEMMA PassWritePlaces ==
  ASSUME IInv, PassWrite
  PROVE  /\ Rows
         /\ \A s \in Inputs : sub[s] = NoSub => sub'[s] = NoSub
         /\ \A s \in Inputs : ~(Queued(s) /\ sub'[s].placed)
         /\ PassOK'
<1>1. PICK w \in Oldest(pass.todo) :
        /\ IF Queued(w) /\ (sub[w].show \/ ~pass.busy)
           THEN PlaceBatch(<<>>, {w}, NoOne)
           ELSE UNCHANGED <<tree, sub>>
        /\ pass' = [pass EXCEPT !.todo = @ \ {w}]
  BY DEF PassWrite
<1>2. last' = last /\ stops' = stops /\ PassOK
  BY MemoryOK DEF PassWrite
<1>3. w \in Writes /\ w \notin Inputs /\ w \in Requests
  BY <1>1, <1>2, DisjointAssumption DEF Oldest, PassOK, Requests
<1>4. PassOK'
  <2>1. [pass EXCEPT !.todo = @ \ {w}]
          \in [pc : {"idle", "writes", "place"}, busy : BOOLEAN, todo : SUBSET Writes]
    BY <1>2 DEF PassOK
  <2> QED
    BY <1>1, <1>2, <2>1 DEF PassOK
<1>5. CASE Queued(w) /\ (sub[w].show \/ ~pass.busy)
  <2>1. PlaceBatch(<<>>, {w}, NoOne) /\ {w} \in SUBSET InboxItems
    BY <1>1, <1>3, <1>5 DEF InboxItems
  <2>2. /\ Rows
        /\ \A s \in Inputs : sub[s] = NoSub => sub'[s] = NoSub
        /\ \A s \in Inputs : Queued(s) /\ sub'[s].placed => s \in {w}
    BY <1>2, <2>1, SilentPlaces
  <2> QED
    BY <1>3, <1>4, <2>2
<1>6. CASE ~(Queued(w) /\ (sub[w].show \/ ~pass.busy))
  <2>1. UNCHANGED tree /\ sub' = sub
    BY <1>1, <1>6
  <2>2. Rows
    BY <1>2, <2>1, TreeStays, NoRow DEF IInv
  <2> QED
    BY <1>4, <2>1, <2>2 DEF Queued
<1> QED
  BY <1>5, <1>6

(* ... so the invariant holds on.                                           *)
LEMMA PassWriteInv ==
  ASSUME IInv, PassWrite
  PROVE  IInv'
<1>1. lane' = lane /\ host' = host /\ queue' = queue /\ stops' = stops
  BY DEF PassWrite
<1> QED
  BY <1>1, PassWritePlaces, PassStep

(* The pass places at "final" for no task.                                  *)
LEMMA PassPlacePlaces ==
  ASSUME IInv, PassPlace
  PROVE  /\ Rows
         /\ \A s \in Inputs : sub[s] = NoSub => sub'[s] = NoSub
         /\ \A s \in Inputs : Queued(s) /\ sub'[s].placed
              => s \in BoundaryWrites("final") \union User("final", NoOne)
<1> DEFINE batch == BoundaryWrites("final") \union User("final", NoOne)
<1>1. PlaceBatch(<<>>, batch, NoOne) /\ last' = last
  BY DEF PassPlace, PlaceBoundary
<1>2. batch \in SUBSET InboxItems
  BY BoundaryTakes
<1> HIDE DEF batch
<1>3. /\ Rows
      /\ \A s \in Inputs : sub[s] = NoSub => sub'[s] = NoSub
      /\ \A s \in Inputs : Queued(s) /\ sub'[s].placed => s \in batch
  BY <1>1, <1>2, SilentPlaces
<1> QED
  BY <1>3 DEF batch

(* ... and is over.                                                         *)
LEMMA PassPlaceInv ==
  ASSUME IInv, PassPlace
  PROVE  IInv'
<1>1. lane' = lane /\ host' = host /\ queue' = queue /\ stops' = stops /\ pass' = PassIdle
  BY DEF PassPlace
<1>2. PassOK'
  <2>1. PassIdle \in [pc : {"idle", "writes", "place"}, busy : BOOLEAN, todo : SUBSET Writes]
    BY DEF PassIdle
  <2> QED
    BY <1>1, <2>1, MemoryOK DEF PassOK
<1> QED
  BY <1>1, <1>2, PassPlacePlaces, PassStep
-----------------------------------------------------------------------------
(* The invariant.                                                          *)

(* The empty conversation.                                                  *)
LEMMA InitInv == Init => IInv
<1> SUFFICES ASSUME Init PROVE IInv
  OBVIOUS
<1>1. /\ entries = <<>> /\ head = 0 /\ rev = 0 /\ last = 0 /\ lane = NoOne /\ host = HostIdle
      /\ queue = QueueIdle /\ pass = PassIdle /\ stops = 0
      /\ sub = [r \in Requests |-> NoSub]
  BY DEF Init
<1>2. entries \in Seq(Entry) /\ Len(entries) = 0 /\ DOMAIN entries = {}
  BY <1>1
<1>3. sub \in [Requests -> Submission] /\ \A r \in Requests : sub[r] = NoSub
  BY <1>1, NoSubType
<1>4. \A r \in Requests :
        /\ sub[r].status = "none" /\ ~sub[r].placed /\ sub[r].task = "none" /\ sub[r].seq = 0
        /\ sub[r].entry = 0 /\ sub[r].mode = "none" /\ sub[r].target = 0
  BY <1>3, NoSubType
<1>5. /\ host \in [req : Inputs \union {NoOne}, edit : Nat, rev : Nat, head : Nat]
      /\ host.req = NoOne /\ host.edit = 0
  BY <1>1 DEF HostIdle
<1>6. /\ queue \in [req : Inputs \union {NoOne}, mode : {"none", "steer", "follow_up"},
                    busy : BOOLEAN]
      /\ queue.req = NoOne
  BY <1>1 DEF QueueIdle
<1>7. pass \in [pc : {"idle", "writes", "place"}, busy : BOOLEAN, todo : SUBSET Writes]
  BY <1>1 DEF PassIdle
<1>8. TypeOK
  BY <1>1, <1>2, <1>3, <1>4, <1>5, <1>6, <1>7 DEF TypeOK
<1>9. \A r \in Requests : Linked(r)
  BY <1>1, <1>4 DEF Linked, Queued
<1>10. Links
  BY <1>1, <1>2, <1>5, <1>6, <1>9 DEF Links
<1>11. Accounted /\ Anchored /\ LiveOnBranch
  <2>1. Inputs \subseteq Requests /\ Writes \subseteq Requests
    BY DEF Requests
  <2> QED
    BY <1>2, <1>4, <2>1 DEF Accounted, Anchored, LiveOnBranch, Live
<1>12. RevisionIdentifies
  BY <1>5 DEF RevisionIdentifies
<1> QED
  BY <1>8, <1>10, <1>11, <1>12 DEF IInv

(* A step that changes nothing.                                             *)
LEMMA StutterInv ==
  ASSUME IInv, UNCHANGED vars
  PROVE  IInv'
<1>1. /\ UNCHANGED tree /\ UNCHANGED memory /\ sub' = sub /\ last' = last /\ stops' = stops
  BY DEF vars, tree, memory
<1>2. Rows
  BY <1>1, TreeStays, NoRow DEF IInv
<1> QED
  BY <1>1, <1>2, StoreStep DEF IInv, TypeOK

(* Every step preserves it.                                                 *)
LEMMA NextInv ==
  ASSUME IInv, [Next]_vars
  PROVE  IInv'
<1>1. ASSUME NEW r \in Direct, NEW e \in {0} \union DOMAIN entries, Reserve(r, e)
      PROVE  IInv'
  BY <1>1, ReserveInv
<1>2. ASSUME HostStep
      PROVE  IInv'
  BY <1>2, AdmitDirectInv, AdmitEditInv, RefuseEditInv DEF HostStep
<1>3. ASSUME NEW r \in Queueable, \/ \E mode \in Modes : CheckBusy(r, mode)
                                  \/ AdmitQueued(r)
      PROVE  IInv'
  BY <1>3, CheckBusyInv, AdmitQueuedInv
<1>4. ASSUME NEW r \in Inputs, ReviseText(r) \/ ReviseMode(r) \/ Cancel(r)
      PROVE  IInv'
  BY <1>4, ReviseTextInv, ReviseModeInv, CancelInv
<1>5. ASSUME NEW r \in Requests, Withdraw(r)
      PROVE  IInv'
  BY <1>5, WithdrawInv
<1>6. ASSUME NEW w \in Writes, NEW c \in WriteContents, QueueWrite(w, c) \/ PlaceWrite(w, c)
      PROVE  IInv'
  BY <1>6, QueueWriteInv, PlaceWriteInv
<1>7. ASSUME NEW e \in DOMAIN entries, SelectBranch(e)
      PROVE  IInv'
  BY <1>7, SelectBranchInv
<1>8. ASSUME NEW r \in Inputs, Begin(r) \/ Dispatch(r)
      PROVE  IInv'
  BY <1>8, BeginInv, DispatchInv
<1>9. ASSUME NEW r \in Inputs, NEW at \in {"post_tools", "approval", "final", "settle"},
             Boundary(r, at)
      PROVE  IInv'
  BY <1>9, BoundaryInv
<1>10. ASSUME NEW r \in Inputs,
              Display(r) \/ Complete(r) \/ Close(r) \/ Release(r) \/ Park(r)
       PROVE  IInv'
  BY <1>10, DisplayInv, CompleteInv, CloseInv, ReleaseInv, ParkInv
<1>11. ASSUME Pass
       PROVE  IInv'
  BY <1>11, PassReadInv, PassWriteInv, PassCheckInv, PassPlaceInv DEF Pass
<1>12. ASSUME Crash
       PROVE  IInv'
  BY <1>12, CrashInv
<1> QED
  BY <1>1, <1>2, <1>3, <1>4, <1>5, <1>6, <1>7, <1>8, <1>9, <1>10, <1>11, <1>12, StutterInv
     DEF Next

(* IInv is an invariant of Inbox.                                           *)
LEMMA Inductive == Spec => []IInv
<1>1. IInv /\ [Next]_vars => IInv'
  BY NextInv
<1> QED
  BY InitInv, <1>1, PTL DEF Spec

(* Tables, registry and process memory keep their shape.                    *)
THEOREM InboxTypes == Spec => []TypeOK
<1>1. IInv => TypeOK
  BY DEF IInv
<1> QED
  BY Inductive, <1>1, PTL

(* Every admitted input is in the transcript exactly once with its last     *)
(* revision's text, or waits, or left the inbox without a trace, however    *)
(* boundaries, passes, revisions, withdrawals and process deaths interleave. *)
THEOREM InputsAccounted == Spec => []Accounted
<1>1. IInv => Accounted
  BY DEF IInv
<1> QED
  BY Inductive, <1>1, PTL

(* What a run says or shows stands below its own input, and a write that    *)
(* names a head stands below that head.                                     *)
THEOREM EntriesAnchored == Spec => []Anchored
<1>1. IInv => Anchored
  BY DEF IInv
<1> QED
  BY Inductive, <1>1, PTL

(* No edit and no branch selection moves the active branch away from a task *)
(* still to be done.                                                        *)
THEOREM TasksOnBranch == Spec => []LiveOnBranch
<1>1. IInv => LiveOnBranch
  BY DEF IInv
<1> QED
  BY Inductive, <1>1, PTL

(* A client whose revision is current sees the current head.                *)
THEOREM RevisionFence == Spec => []RevisionIdentifies
<1>1. IInv => RevisionIdentifies
  BY DEF IInv
<1> QED
  BY Inductive, <1>1, PTL
-----------------------------------------------------------------------------
(* The order in which inputs leave the inbox.                              *)

(* No queued input is placed by the step.                                   *)
StayOut == \A s \in Inputs : ~(Queued(s) /\ sub'[s].placed)

(* Rows that keep their place, and rows that were never used before.        *)
LEMMA KeepOut ==
  ASSUME IInv, NEW r \in Requests, NEW v, sub' = [sub EXCEPT ![r] = v],
         sub[r] = NoSub \/ v.placed = sub[r].placed
  PROVE  StayOut
<1>1. \A s \in Inputs : s \in Requests /\ (s # r => sub'[s] = sub[s]) /\ (s = r => sub'[s] = v)
  BY RowType DEF Requests
<1> QED
  BY <1>1, NoSubType DEF StayOut, Queued

(* Admissions: the row was never used.                                      *)
LEMMA AdmitKeepsOut ==
  ASSUME IInv, NEW r \in Inputs, AdmitDirect(r) \/ AdmitEdit(r) \/ AdmitQueued(r)
  PROVE  StayOut
<1>1. r \in Requests /\ r # NoOne
  BY NoOneAssumption DEF Requests
<1>2. sub[r] = NoSub
  BY <1>1, MemoryOK DEF AdmitDirect, AdmitEdit, AdmitQueued, HostOK, QueueOK
<1>3. PICK v : sub' = [sub EXCEPT ![r] = v]
  BY DEF AdmitDirect, AdmitEdit, AdmitQueued
<1> QED
  BY <1>1, <1>2, <1>3, KeepOut

(* Writes are no inputs.                                                    *)
LEMMA WriteKeepsOut ==
  ASSUME IInv, NEW w \in Writes, NEW c, QueueWrite(w, c) \/ PlaceWrite(w, c)
  PROVE  StayOut
<1>1. w \in Requests /\ sub[w] = NoSub
  BY DEF Requests, QueueWrite, PlaceWrite
<1>2. PICK v : sub' = [sub EXCEPT ![w] = v]
  BY DEF QueueWrite, PlaceWrite
<1> QED
  BY <1>1, <1>2, KeepOut

(* What changes text, mode, task or status of one row, or none.             *)
LEMMA RowKeepsOut ==
  ASSUME IInv, NEW r \in Requests,
         \/ ReviseText(r) \/ ReviseMode(r) \/ Cancel(r) \/ Withdraw(r) \/ Begin(r)
         \/ Dispatch(r) \/ Complete(r) \/ Close(r) \/ Park(r)
  PROVE  StayOut
<1>1. sub \in [Requests -> Submission] /\ sub[r] \in Submission
  BY RowType
<1>2. ASSUME NEW text, sub' = [sub EXCEPT ![r].text = text]
      PROVE  StayOut
  BY <1>1, <1>2 DEF StayOut, Queued, Requests, Submission
<1>3. ASSUME NEW mode, sub' = [sub EXCEPT ![r].mode = mode]
      PROVE  StayOut
  BY <1>1, <1>3 DEF StayOut, Queued, Requests, Submission
<1>4. ASSUME NEW task, sub' = [sub EXCEPT ![r].task = task]
      PROVE  StayOut
  BY <1>1, <1>4 DEF StayOut, Queued, Requests, Submission
<1>5. ASSUME NEW task, NEW status,
             sub' = [sub EXCEPT ![r].task = task, ![r].status = status]
      PROVE  StayOut
  BY <1>1, <1>5 DEF StayOut, Queued, Requests, Submission
<1>6. CASE ReviseText(r)
  <2>1. sub' = [sub EXCEPT ![r].text = sub[r].text + 1]
    BY <1>1, <1>6 DEF ReviseText
  <2> QED
    BY <1>2, <2>1
<1>7. CASE ReviseMode(r)
  BY <1>3, <1>7 DEF ReviseMode
<1>8. CASE Begin(r) \/ Dispatch(r) \/ Park(r)
  BY <1>4, <1>8 DEF Begin, Dispatch, Park, Claim
<1>9. CASE Cancel(r) \/ Complete(r) \/ Close(r)
  BY <1>5, <1>9 DEF Cancel, Complete, Close
<1>10. CASE Withdraw(r)
  <2>1. sub' = [sub EXCEPT ![r].task = IF IsInput(r) THEN "closed" ELSE sub[r].task,
                           ![r].status = "closed"]
    BY <1>1, <1>10 DEF Withdraw
  <2> QED
    BY <1>5, <2>1
<1> QED
  BY <1>6, <1>7, <1>8, <1>9, <1>10

(* A process death places nothing.                                          *)
LEMMA CrashKeepsOut ==
  ASSUME IInv, Crash
  PROVE  StayOut
<1>1. sub' = [r \in Requests |->
                [sub[r] EXCEPT !.task = IF @ = "running" THEN "pending" ELSE @]]
  BY DEF Crash
<1>2. ASSUME NEW s \in Inputs
      PROVE  sub'[s].placed = sub[s].placed
  <2>1. s \in Requests /\ sub[s] \in Submission
    BY RowType DEF Requests
  <2>2. PICK task : sub'[s] = [sub[s] EXCEPT !.task = task]
    BY <1>1, <2>1
  <2> QED
    BY <2>1, <2>2 DEF Submission
<1> QED
  BY <1>2 DEF StayOut, Queued

(* What refuses an edit marks a row that is not queued.                     *)
LEMMA RefuseKeepsOut ==
  ASSUME IInv, RefuseEdit
  PROVE  StayOut
<1>1. PICK r : r = host.req /\ sub' = [sub EXCEPT ![r].mode = "refused"]
  BY DEF RefuseEdit
<1>2. \A s \in Inputs : s \in Requests /\ sub[s] \in Submission
  BY RowType DEF Requests
<1>3. sub \in [Requests -> Submission]
  BY DEF IInv, TypeOK
<1> QED
  BY <1>1, <1>2, <1>3 DEF StayOut, Queued, Submission

(* What a boundary takes is the first in the order of the inbox.            *)
LEMMA UserFirst ==
  ASSUME IInv, NEW at, NEW consumer, NEW r \in User(at, consumer), r \in Inputs,
         NEW s \in Inputs, Queued(s), s # r
  PROVE  \/ sub[r].mode = "steer" /\ sub[s].mode = "follow_up"
         \/ sub[r].mode = sub[s].mode /\ sub[r].seq < sub[s].seq
<1>1. r \in Requests /\ s \in Requests /\ s \in InboxItems
  BY DEF Requests, InboxItems
<1>2. /\ sub[s].mode \in {"steer", "follow_up"} /\ sub[s].seq # sub[r].seq
      /\ sub[r].seq \in Nat /\ sub[s].seq \in Nat
  <2>1. Linked(s) /\ sub[r] \in Submission /\ sub[s] \in Submission
    BY <1>1, RowType
  <2> QED
    BY <1>1, <2>1 DEF Linked, Submission
<1>3. CASE Steers # {}
  <2>1. r \in Oldest(Steers)
    BY <1>3 DEF User
  <2>2. sub[r].mode = "steer" /\ (sub[s].mode = "steer" => sub[r].seq <= sub[s].seq)
    BY <1>1, <2>1 DEF Oldest, Steers, IsSteer
  <2> QED
    BY <1>2, <2>2
<1>4. CASE Steers = {}
  <2>1. r \in Oldest(FollowUps) /\ s \notin Steers
    BY <1>4 DEF User
  <2>2. sub[s].mode = "follow_up"
    BY <1>1, <1>2, <2>1 DEF Steers, IsSteer
  <2>3. sub[r].mode = "follow_up" /\ sub[r].seq <= sub[s].seq
    BY <1>1, <2>1, <2>2 DEF Oldest, FollowUps, IsFollowUp
  <2> QED
    BY <1>2, <2>2, <2>3
<1> QED
  BY <1>3, <1>4

InOrderStep ==
  \A r, s \in Inputs :
    Queued(r) /\ sub'[r].placed /\ Queued(s) /\ ~sub'[s].placed =>
      \/ sub[r].mode = "steer" /\ sub[s].mode = "follow_up"
      \/ sub[r].mode = sub[s].mode /\ sub[r].seq < sub[s].seq

(* A step that places what a boundary takes keeps the order.                *)
LEMMA TakenInOrder ==
  ASSUME IInv, NEW at, NEW consumer,
         \A s \in Inputs : Queued(s) /\ sub'[s].placed
           => s \in BoundaryWrites(at) \union User(at, consumer)
  PROVE  InOrderStep
<1> SUFFICES ASSUME NEW r \in Inputs, NEW s \in Inputs,
                    Queued(r), sub'[r].placed, Queued(s), ~sub'[s].placed
             PROVE  \/ sub[r].mode = "steer" /\ sub[s].mode = "follow_up"
                    \/ sub[r].mode = sub[s].mode /\ sub[r].seq < sub[s].seq
  BY DEF InOrderStep
<1>1. r \notin Writes /\ r # s
  BY DisjointAssumption
<1>2. r \in User(at, consumer)
  BY <1>1 DEF BoundaryWrites
<1> QED
  BY <1>1, <1>2, UserFirst

(* Every step keeps the order.                                              *)
LEMMA NextInOrder ==
  ASSUME IInv, [Next]_vars
  PROVE  InOrderStep
<1>1. ASSUME StayOut PROVE InOrderStep
  BY <1>1 DEF StayOut, InOrderStep
<1>2. ASSUME sub' = sub PROVE InOrderStep
  BY <1>2 DEF InOrderStep, Queued
<1>3. ASSUME NEW r \in Direct, NEW e \in {0} \union DOMAIN entries, Reserve(r, e)
      PROVE  InOrderStep
  BY <1>2, <1>3 DEF Reserve
<1>4. ASSUME HostStep
      PROVE  InOrderStep
  BY <1>1, <1>4, AdmitKeepsOut, RefuseKeepsOut DEF HostStep, Inputs
<1>5. ASSUME NEW r \in Queueable, \/ \E mode \in Modes : CheckBusy(r, mode)
                                  \/ AdmitQueued(r)
      PROVE  InOrderStep
  BY <1>1, <1>2, <1>5, AdmitKeepsOut DEF CheckBusy, Inputs
<1>6. ASSUME NEW r \in Requests,
             \/ ReviseText(r) \/ ReviseMode(r) \/ Cancel(r) \/ Withdraw(r) \/ Begin(r)
             \/ Dispatch(r) \/ Complete(r) \/ Close(r) \/ Park(r)
      PROVE  InOrderStep
  BY <1>1, <1>6, RowKeepsOut
<1>7. ASSUME NEW w \in Writes, NEW c \in WriteContents, QueueWrite(w, c) \/ PlaceWrite(w, c)
      PROVE  InOrderStep
  BY <1>1, <1>7, WriteKeepsOut
<1>8. ASSUME NEW e \in DOMAIN entries, SelectBranch(e)
      PROVE  InOrderStep
  BY <1>2, <1>8 DEF SelectBranch
<1>9. ASSUME NEW r \in Inputs, NEW at \in {"post_tools", "approval", "final", "settle"},
             Boundary(r, at)
      PROVE  InOrderStep
  BY <1>9, BoundaryPlaces, TakenInOrder
<1>10. ASSUME NEW r \in Inputs, Display(r) \/ Release(r)
       PROVE  InOrderStep
  BY <1>2, <1>10 DEF Display, Release
<1>11. ASSUME Pass
       PROVE  InOrderStep
  <2>1. CASE PassRead \/ PassCheck
    BY <1>2, <2>1 DEF PassRead, PassCheck
  <2>2. CASE PassWrite
    BY <1>1, <2>2, PassWritePlaces DEF StayOut
  <2>3. CASE PassPlace
    BY <2>3, PassPlacePlaces, TakenInOrder
  <2> QED
    BY <1>11, <2>1, <2>2, <2>3 DEF Pass
<1>12. ASSUME Crash
       PROVE  InOrderStep
  BY <1>1, <1>12, CrashKeepsOut
<1>13. ASSUME UNCHANGED vars
       PROVE  InOrderStep
  BY <1>2, <1>13 DEF vars
<1>14. Inputs \subseteq Requests
  BY DEF Requests
<1> QED
  BY <1>3, <1>4, <1>5, <1>6, <1>7, <1>8, <1>9, <1>10, <1>11, <1>12, <1>13, <1>14 DEF Next

(* Of the inputs that wait in the inbox, none is placed past an older one   *)
(* of its mode and no follow-up past steering, whoever places them: a       *)
(* boundary of a run or the scheduler's pass.  A new input that is placed   *)
(* at its admission has not waited and is outside of this.                  *)
THEOREM InputsInOrder == Spec => InOrder
<1>1. IInv /\ [Next]_vars => InOrderStep
  BY NextInOrder
<1>2. InOrder <=> [][InOrderStep]_vars
  BY DEF InOrder, InOrderStep
<1> QED
  BY Inductive, <1>1, <1>2, PTL DEF Spec

=============================================================================
