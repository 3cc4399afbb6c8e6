------------------------------ MODULE RunEntry ------------------------------
(***************************************************************************)
(* The door of one experiment run: the researcher moves the run between    *)
(* its statuses, browsers enter it through the public link, and a browser  *)
(* that saved a resume token comes back to its session.                    *)
(*                                                                         *)
(* As in ParticipantSession a handler is a program counter and a frame of  *)
(* local values, every SQL statement is a step of its own, and a handler   *)
(* may die between two of them.  A handler here also carries the browser's *)
(* side of an entry (useParticipantFlow.ts): it reads the saved token, asks*)
(* for its resume info, creates or resumes, and saves the token of the     *)
(* answer.  A second handler with the same client is a second tab.         *)
(*                                                                         *)
(* Resume tokens and session ids are random and never collide, so a token  *)
(* is the id of its session.  The launchable flag of the page load and of  *)
(* the resume banner change nothing and are left out: a browser may try to *)
(* enter whatever it last saw.  The run is one whose configuration passes  *)
(* the launch validation, which reads rows that never change.              *)
(***************************************************************************)
EXTENDS Naturals

CONSTANTS
    Handlers,   \* request handler threads
    Clients,    \* browsers
    Ids,        \* sessions that fit in the model (bound)
    NoToken     \* localStorage has no resume token

ASSUME TokenAssumption == NoToken \notin Ids

VARIABLES
    run,        \* researcher_runs.status
    sessions,   \* id -> "none", "open" (resumable) or "finalized"
    saved,      \* client -> resume token in its localStorage
    pc,         \* handler -> next statement
    frame       \* handler -> local variables

tables == <<run, sessions>>
vars == <<run, sessions, saved, pc, frame>>

RunStatuses == {"draft", "active", "paused", "closed"}
Tokens == Ids \cup {NoToken}
Labels == {"idle", "transitionWrite", "entryResume", "createRun", "createResume",
           "createInsert", "respond"}
Frames == [target : RunStatuses, client : Clients, token : Tokens]

AllowedTransitions ==
    [draft |-> {"active"}, active |-> {"paused", "closed"},
     paused |-> {"active", "closed"}, closed |-> {}]

Init ==
    /\ run = "draft"
    /\ sessions = [id \in Ids |-> "none"]
    /\ saved = [c \in Clients |-> NoToken]
    /\ pc = [h \in Handlers |-> "idle"]
    /\ frame \in [Handlers -> {[target |-> "draft", client |-> c, token |-> NoToken] :
                                   c \in Clients}]

Goto(h, label) == pc' = [pc EXCEPT ![h] = label]

\* The handler is done; what is left in its frame is never read.
Return(h) == Goto(h, "idle") /\ UNCHANGED frame

\* The worker dies or its answer is lost: what was committed stays.
Crash(h) ==
    /\ pc[h] # "idle"
    /\ Return(h)
    /\ UNCHANGED <<tables, saved>>

-----------------------------------------------------------------------------
(* POST /runs/{id}/activate, pause, close                                  *)

TransitionRead(h, target) ==
    /\ pc[h] = "idle"
    /\ target \in AllowedTransitions[run]
    /\ frame' = [frame EXCEPT ![h].target = target]
    /\ Goto(h, "transitionWrite")
    /\ UNCHANGED <<tables, saved>>

TransitionWrite(h) ==
    /\ pc[h] = "transitionWrite"
    /\ run' = frame[h].target
    /\ Return(h)
    /\ UNCHANGED <<sessions, saved>>

-----------------------------------------------------------------------------
(* beginSession of the browser, with POST /sessions                        *)

Begin(h, c) ==
    /\ pc[h] = "idle"
    /\ frame' = [frame EXCEPT ![h].client = c, ![h].token = saved[c]]
    /\ Goto(h, IF saved[c] = NoToken THEN "createRun" ELSE "entryResume")
    /\ UNCHANGED <<tables, saved>>

\* Only a resumable token is passed on; a finalized one is forgotten.
EntryResume(h) ==
    /\ pc[h] = "entryResume"
    /\ Goto(h, "createRun")
    /\ \/ /\ sessions[frame[h].token] = "open"
          /\ UNCHANGED <<frame, saved>>
       \/ /\ sessions[frame[h].token] = "finalized"
          /\ frame' = [frame EXCEPT ![h].token = NoToken]
          /\ saved' = [saved EXCEPT ![frame[h].client] = NoToken]
    /\ UNCHANGED tables

\* Mutant: the status of the run is not checked.
CreateRunUnchecked(h) ==
    /\ pc[h] = "createRun"
    /\ Goto(h, IF frame[h].token = NoToken THEN "createInsert" ELSE "createResume")
    /\ UNCHANGED <<tables, saved, frame>>

\* Mutant: a token is not looked up, every entry creates a session.
CreateRunFresh(h) ==
    /\ pc[h] = "createRun"
    /\ Goto(h, IF run # "active" THEN "idle" ELSE "createInsert")
    /\ UNCHANGED <<tables, saved, frame>>

CreateRun(h) ==
    /\ pc[h] = "createRun"
    /\ Goto(h, IF run # "active" THEN "idle"
               ELSE IF frame[h].token = NoToken THEN "createInsert" ELSE "createResume")
    /\ UNCHANGED <<tables, saved, frame>>

\* The token's session is answered if it is still open; a finalized one is
\* refused (resume_not_allowed).
CreateResume(h) ==
    /\ pc[h] = "createResume"
    /\ Goto(h, IF sessions[frame[h].token] = "open" THEN "respond" ELSE "idle")
    /\ UNCHANGED <<tables, saved, frame>>

\* Mutant: the row gets a status that get_resume_info does not know.
CreateInsertUnknown(h) ==
    /\ pc[h] = "createInsert"
    /\ \E id \in Ids :
           /\ sessions[id] = "none"
           /\ sessions' = [sessions EXCEPT ![id] = "new"]
           /\ frame' = [frame EXCEPT ![h].token = id]
    /\ Goto(h, "respond")
    /\ UNCHANGED <<run, saved>>

\* Mutant: the token is answered before the row is stored.
CreateInsertLost(h) ==
    /\ pc[h] = "createInsert"
    /\ \E id \in Ids :
           /\ sessions[id] = "none"
           /\ frame' = [frame EXCEPT ![h].token = id]
    /\ Goto(h, "respond")
    /\ UNCHANGED <<tables, saved>>

CreateInsert(h) ==
    /\ pc[h] = "createInsert"
    /\ \E id \in Ids :
           /\ sessions[id] = "none"
           /\ sessions' = [sessions EXCEPT ![id] = "open"]
           /\ frame' = [frame EXCEPT ![h].token = id]
    /\ Goto(h, "respond")
    /\ UNCHANGED <<run, saved>>

\* The browser saves the token of the answer.
Respond(h) ==
    /\ pc[h] = "respond"
    /\ saved' = [saved EXCEPT ![frame[h].client] = frame[h].token]
    /\ Return(h)
    /\ UNCHANGED tables

\* final_submit of the saved session; the browser forgets the token when the
\* answer arrives.
Finish(c) ==
    /\ saved[c] # NoToken
    /\ sessions[saved[c]] = "open"
    /\ sessions' = [sessions EXCEPT ![saved[c]] = "finalized"]
    /\ \/ saved' = [saved EXCEPT ![c] = NoToken]
       \/ UNCHANGED saved
    /\ UNCHANGED <<run, pc, frame>>

-----------------------------------------------------------------------------
Transition(h) == (\E target \in RunStatuses : TransitionRead(h, target)) \/ TransitionWrite(h)

Enter(h) ==
    \/ \E c \in Clients : Begin(h, c)
    \/ EntryResume(h) \/ CreateRun(h) \/ CreateResume(h) \/ CreateInsert(h) \/ Respond(h)

Next ==
    \/ \E h \in Handlers : Transition(h) \/ Enter(h) \/ Crash(h)
    \/ \E c \in Clients : Finish(c)

Spec == Init /\ [][Next]_vars

-----------------------------------------------------------------------------
(* Properties.                                                             *)

\* Every variable has its type.
TypeOK ==
    /\ run \in RunStatuses
    /\ sessions \in [Ids -> {"none", "open", "finalized"}]
    /\ saved \in [Clients -> Tokens]
    /\ pc \in [Handlers -> Labels]
    /\ frame \in [Handlers -> Frames]

\* A run has sessions only if it was launched, and a launched run never goes
\* back to draft, however transitions and entries overlap.
SessionsNeedLaunch == (\E id \in Ids : sessions[id] # "none") => run # "draft"

\* A saved token belongs to a session that exists, and a handler about to
\* answer has one, however entries, final submits and lost answers overlap.
TokensResolve ==
    /\ \A c \in Clients : saved[c] # NoToken => sessions[saved[c]] # "none"
    /\ \A h \in Handlers : pc[h] \in {"entryResume", "createResume", "respond"} =>
           frame[h].token # NoToken /\ sessions[frame[h].token] # "none"

\* A browser that holds the token of an open session is never moved to
\* another session, when its entries do not overlap.
OpenSessionKept ==
    [][\A c \in Clients :
           (saved[c] # NoToken /\ sessions[saved[c]] = "open") =>
               saved'[c] \in {saved[c], NoToken}]_vars

\* One request at a time, the run implements RunLifecycle.
Lifecycle == INSTANCE RunLifecycle
    WITH status <- run, admitted <- {id \in Ids : sessions[id] # "none"}
LifecycleImplemented == Lifecycle!Spec
=============================================================================
