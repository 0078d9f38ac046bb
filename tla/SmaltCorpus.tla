----------------------------- MODULE SmaltCorpus -----------------------------
(***************************************************************************)
(* What the write tools promise their callers: the corpus is one object    *)
(* and every call takes effect on it at one instant between the request    *)
(* and the reply, computed from what the page holds at that very instant.  *)
(* CorpusWrites, with its lock, its temporary files and its index passes,  *)
(* is shown to implement this.                                             *)
(***************************************************************************)
EXTENDS CorpusOps

CONSTANTS Client, Calls, NoCall

VARIABLES
    pages,   \* the markdown: Id -> page or NoPage
    call,    \* the call each client has open
    reply    \* its outcome; "pending" until it is decided

vars == <<pages, call, reply>>

Init ==
    /\ pages = [i \in Id |-> NoPage]
    /\ call = [c \in Client |-> NoCall]
    /\ reply = [c \in Client |-> "pending"]

Pending(c) == call[c] # NoCall /\ reply[c] = "pending"
Decide(c, r) == reply' = [reply EXCEPT ![c] = r] /\ UNCHANGED call

Request(c) ==
    /\ call[c] = NoCall
    /\ \E op \in Calls : call' = [call EXCEPT ![c] = op]
    /\ UNCHANGED <<pages, reply>>

\* A create never overwrites; an update and an edit need the page.
Write(c) ==
    /\ Pending(c)
    /\ LET op == call[c] IN
         /\ op.kind \in WriteKinds \cup EditKinds
         /\ op.kind = "create" => pages[op.id] = NoPage
         /\ op.kind \in EditKinds =>
                pages[op.id] # NoPage /\ ~NothingToDo(op, pages[op.id])
         /\ pages' = [pages EXCEPT ![op.id] = Edited(op, pages[op.id])]
    /\ Decide(c, "ok")

Remove(c) ==
    /\ Pending(c)
    /\ call[c].kind = "removePage"
    /\ pages' = [pages EXCEPT ![call[c].id] = NoPage]
    /\ Decide(c, "ok")

\* bootstrap and reindex_all leave the markdown alone.
Maintain(c) ==
    /\ Pending(c)
    /\ call[c].kind \in IndexKinds
    /\ UNCHANGED pages
    /\ Decide(c, "ok")

\* Duplicate, claim_not_found, no_matching_link: and it is so at this instant.
Decline(c) ==
    /\ Pending(c)
    /\ call[c].kind \in EditKinds
    /\ pages[call[c].id] # NoPage
    /\ NothingToDo(call[c], pages[call[c].id])
    /\ UNCHANGED pages
    /\ Decide(c, "nothing")

\* not_found, uuid_collision: without any effect.
Refuse(c) ==
    /\ Pending(c)
    /\ UNCHANGED pages
    /\ Decide(c, "refused")

\* The page is written, but the pass behind it raised: the caller sees an error.
Fail(c) ==
    /\ reply[c] = "ok"
    /\ UNCHANGED pages
    /\ Decide(c, "failed")

Return(c) ==
    /\ reply[c] # "pending"
    /\ call' = [call EXCEPT ![c] = NoCall]
    /\ reply' = [reply EXCEPT ![c] = "pending"]
    /\ UNCHANGED pages

\* The process dies: open calls are never answered, the corpus stays.
Crash ==
    /\ call' = [c \in Client |-> NoCall]
    /\ reply' = [c \in Client |-> "pending"]
    /\ UNCHANGED pages

Next ==
    \/ \E c \in Client :
          \/ Request(c) \/ Write(c) \/ Remove(c) \/ Maintain(c)
          \/ Decline(c) \/ Refuse(c) \/ Fail(c) \/ Return(c)
    \/ Crash

Spec == Init /\ [][Next]_vars
=============================================================================
