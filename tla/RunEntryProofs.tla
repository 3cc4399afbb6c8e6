--------------------------- MODULE RunEntryProofs ---------------------------
(***************************************************************************)
(* Proofs about RunEntry for any handlers, browsers and sessions: what     *)
(* holds however requests overlap, and the refinement of RunLifecycle when *)
(* they do not.                                                            *)
(***************************************************************************)
EXTENDS RunEntry, TLAPS

\* A handler that is about to insert or answer passed the status check after
\* the launch, no transition goes back to draft, and a token that is passed on
\* was looked up.
EntryOK ==
    \A h \in Handlers :
        /\ pc[h] \in {"createResume", "createInsert", "respond"} => run # "draft"
        /\ pc[h] = "transitionWrite" => frame[h].target # "draft"
        /\ pc[h] = "createRun" /\ frame[h].token # NoToken => sessions[frame[h].token] # "none"

RaceInv == TypeOK /\ SessionsNeedLaunch /\ TokensResolve /\ EntryOK

\* The invariant of overlapping requests holds at first.
LEMMA RaceInit == Init => RaceInv
<1> SUFFICES ASSUME Init PROVE RaceInv
  OBVIOUS
<1>1. TypeOK
  <2>1. frame \in [Handlers -> Frames]
    BY DEF Init, Frames, RunStatuses, Tokens
  <2> QED  BY <2>1 DEF Init, TypeOK, RunStatuses, Labels, Tokens
<1>2. SessionsNeedLaunch /\ TokensResolve /\ EntryOK
  BY DEF Init, SessionsNeedLaunch, TokensResolve, EntryOK
<1> QED  BY <1>1, <1>2 DEF RaceInv

\* Every statement of a transition or an entry keeps it.
LEMMA RaceNext == RaceInv /\ [Next]_vars => RaceInv'
<1> SUFFICES ASSUME RaceInv, [Next]_vars PROVE RaceInv'
  OBVIOUS
<1> USE TokenAssumption DEF RaceInv, TypeOK, SessionsNeedLaunch, TokensResolve, EntryOK,
        Goto, Return, tables, Labels, Tokens
<1>1. CASE \E h \in Handlers : Transition(h)
  <2>1. PICK h \in Handlers : (\E target \in RunStatuses : TransitionRead(h, target))
                              \/ TransitionWrite(h)
    BY <1>1 DEF Transition
  <2>2. CASE \E target \in RunStatuses : TransitionRead(h, target)
    <3>1. PICK target \in AllowedTransitions[run] : TransitionRead(h, target)
      BY <2>2 DEF TransitionRead
    <3>2. target \in RunStatuses /\ target # "draft"
      BY <3>1 DEF AllowedTransitions, RunStatuses
    <3>3. frame' \in [Handlers -> Frames]
      BY <3>1, <3>2 DEF TransitionRead, Frames
    <3>4. /\ \A g \in Handlers : frame'[g].token = frame[g].token
          /\ frame'[h].target = target
          /\ \A g \in Handlers \ {h} : frame'[g].target = frame[g].target
      BY <3>1 DEF TransitionRead, Frames
    <3>5. /\ UNCHANGED <<run, sessions, saved>>
          /\ pc' = [pc EXCEPT ![h] = "transitionWrite"]
      BY <3>1 DEF TransitionRead
    <3>6. TypeOK' /\ SessionsNeedLaunch' /\ TokensResolve'
      BY <3>3, <3>4, <3>5
    <3>7. EntryOK'
      BY <3>2, <3>4, <3>5
    <3> QED  BY <3>6, <3>7
  <2>3. CASE TransitionWrite(h)
    BY <2>3 DEF TransitionWrite, Frames
  <2> QED  BY <2>1, <2>2, <2>3
<1>2. CASE \E h \in Handlers : Enter(h)
  <2>1. PICK h \in Handlers : Enter(h)
    BY <1>2
  <2>2. CASE \E c \in Clients : Begin(h, c)
    <3>1. PICK c \in Clients : Begin(h, c)
      BY <2>2
    <3>2. frame' \in [Handlers -> Frames]
      BY <3>1 DEF Begin, Frames
    <3>3. /\ frame'[h].token = saved[c]
          /\ \A g \in Handlers \ {h} : frame'[g] = frame[g]
      BY <3>1 DEF Begin, Frames
    <3> QED  BY <3>1, <3>2, <3>3 DEF Begin
  <2>3. CASE EntryResume(h)
    <3>1. frame' \in [Handlers -> Frames] /\ saved' \in [Clients -> Tokens]
      BY <2>3 DEF EntryResume, Frames
    <3>2. \A g \in Handlers \ {h} : frame'[g] = frame[g]
      BY <2>3 DEF EntryResume
    <3>3. \A c \in Clients : saved'[c] \in {saved[c], NoToken}
      BY <2>3 DEF EntryResume
    <3>4. /\ UNCHANGED <<run, sessions>> /\ pc' = [pc EXCEPT ![h] = "createRun"]
          /\ pc[h] = "entryResume"
      BY <2>3 DEF EntryResume
    <3>5. frame'[h].token \in {frame[h].token, NoToken}
      BY <2>3 DEF EntryResume, Frames
    <3>6. frame'[h].target = frame[h].target
      BY <2>3 DEF EntryResume, Frames
    <3>7. TypeOK' /\ SessionsNeedLaunch' /\ TokensResolve'
      BY <3>1, <3>2, <3>3, <3>4
    <3>8. EntryOK'
      BY <3>2, <3>4, <3>5, <3>6
    <3> QED  BY <3>7, <3>8
  <2>4. CASE CreateRun(h)
    BY <2>4 DEF CreateRun, RunStatuses
  <2>5. CASE CreateResume(h)
    BY <2>5 DEF CreateResume
  <2>6. CASE CreateInsert(h)
    <3>1. PICK id \in Ids : /\ sessions[id] = "none"
                            /\ sessions' = [sessions EXCEPT ![id] = "open"]
                            /\ frame' = [frame EXCEPT ![h].token = id]
      BY <2>6 DEF CreateInsert
    <3>2. frame' \in [Handlers -> Frames]
      BY <3>1 DEF Frames
    <3>3. /\ frame'[h].token = id
          /\ \A g \in Handlers \ {h} : frame'[g] = frame[g]
      BY <3>1 DEF Frames
    <3>4. \A i \in Ids : sessions[i] # "none" => sessions'[i] # "none"
      BY <3>1
    <3>5. sessions'[id] # "none" /\ run # "draft"
      BY <2>6, <3>1 DEF CreateInsert
    <3>6. \A g \in Handlers : frame[g].token \in Tokens
      BY DEF Frames
    <3> QED  BY <2>6, <3>1, <3>2, <3>3, <3>4, <3>5, <3>6 DEF CreateInsert
  <2>7. CASE Respond(h)
    <3>1. frame[h].client \in Clients /\ frame[h].token \in Ids
      BY <2>7 DEF Respond, Frames
    <3> QED  BY <2>7, <3>1 DEF Respond
  <2> QED  BY <2>1, <2>2, <2>3, <2>4, <2>5, <2>6, <2>7 DEF Enter
<1>3. CASE \E h \in Handlers : Crash(h)
  BY <1>3 DEF Crash
<1>4. CASE \E c \in Clients : Finish(c)
  <2>1. PICK c \in Clients : Finish(c)
    BY <1>4
  <2>2. \A i \in Ids : sessions[i] # "none" <=> sessions'[i] # "none"
    BY <2>1 DEF Finish
  <2>3. \A g \in Handlers : frame[g].token \in Tokens
    BY DEF Frames
  <2> QED  BY <2>1, <2>2, <2>3 DEF Finish
<1>5. CASE UNCHANGED vars
  BY <1>5 DEF vars
<1> QED  BY <1>1, <1>2, <1>3, <1>4, <1>5 DEF Next

\* It holds in every reachable state.
LEMMA RaceInvariant == Spec => []RaceInv
BY RaceInit, RaceNext, PTL DEF Spec

\* Every reachable state has its type.
THEOREM TypeCorrect == Spec => []TypeOK
<1>1. RaceInv => TypeOK
  BY DEF RaceInv
<1> QED  BY <1>1, RaceInvariant, PTL

\* Only a launched run has sessions, however requests overlap
\* (_resolve_public_run, transition_run_status).
THEOREM SessionsAfterLaunch == Spec => []SessionsNeedLaunch
<1>1. RaceInv => SessionsNeedLaunch
  BY DEF RaceInv
<1> QED  BY <1>1, RaceInvariant, PTL

\* Every token that a browser saved or a handler answers has its session,
\* however requests overlap and answers get lost (create_session).
THEOREM TokensHaveSessions == Spec => []TokensResolve
<1>1. RaceInv => TokensResolve
  BY DEF RaceInv
<1> QED  BY <1>1, RaceInvariant, PTL

-----------------------------------------------------------------------------
(* Requests that do not overlap: one handler.  What it read is still true  *)
(* when it is used, except that a final submit may come between.           *)

OneHandler == \A g, h \in Handlers : g = h

SeqInv ==
    \A h \in Handlers :
        /\ pc[h] = "transitionWrite" => frame[h].target \in AllowedTransitions[run]
        /\ pc[h] \in {"createResume", "createInsert"} => run = "active"
        /\ pc[h] = "createInsert" => frame[h].token = NoToken
        /\ pc[h] \in {"entryResume", "createRun", "createResume", "createInsert", "respond"} =>
               LET c == frame[h].client
               IN  saved[c] # NoToken /\ sessions[saved[c]] = "open" => frame[h].token = saved[c]

\* The invariant of a single handler holds at first.
LEMMA SeqInit == Init => SeqInv
BY DEF Init, SeqInv

\* A statement of the only handler keeps it.
LEMMA SeqStep ==
    ASSUME OneHandler, RaceInv, SeqInv, NEW h \in Handlers,
           Transition(h) \/ Enter(h) \/ Crash(h)
    PROVE  SeqInv'
<1> SUFFICES
      /\ pc'[h] = "transitionWrite" => frame'[h].target \in AllowedTransitions[run']
      /\ pc'[h] \in {"createResume", "createInsert"} => run' = "active"
      /\ pc'[h] = "createInsert" => frame'[h].token = NoToken
      /\ pc'[h] \in {"entryResume", "createRun", "createResume", "createInsert", "respond"} =>
             LET c == frame'[h].client
             IN  saved'[c] # NoToken /\ sessions'[saved'[c]] = "open" => frame'[h].token = saved'[c]
  BY DEF OneHandler, SeqInv
<1> USE DEF RaceInv, TypeOK, SeqInv, Goto, Return, tables
<1>1. CASE \E target \in RunStatuses : TransitionRead(h, target)
  <2>1. PICK target \in AllowedTransitions[run] : TransitionRead(h, target)
    BY <1>1 DEF TransitionRead
  <2> QED  BY <2>1 DEF TransitionRead, Frames
<1>2. CASE TransitionWrite(h)
  BY <1>2 DEF TransitionWrite
<1>3. CASE \E c \in Clients : Begin(h, c)
  BY <1>3 DEF Begin, Frames
<1>4. CASE EntryResume(h)
  <2>1. frame[h].client \in Clients
    BY DEF Frames
  <2> QED  BY <1>4, <2>1 DEF EntryResume, Frames
<1>5. CASE CreateRun(h)
  BY <1>5 DEF CreateRun
<1>6. CASE CreateResume(h)
  BY <1>6 DEF CreateResume
<1>7. CASE CreateInsert(h)
  <2> DEFINE c == frame[h].client
  <2>1. c \in Clients /\ frame'[h].client = c
    BY <1>7 DEF CreateInsert, Frames
  <2>2. saved[c] # NoToken => sessions[saved[c]] \notin {"none", "open"}
    BY <1>7, <2>1 DEF CreateInsert, TokensResolve
  <2>3. saved[c] # NoToken => sessions'[saved[c]] = sessions[saved[c]]
    BY <1>7, <2>1, <2>2 DEF CreateInsert, Tokens
  <2>4. pc'[h] = "respond" /\ saved' = saved
    BY <1>7 DEF CreateInsert
  <2> QED  BY <2>1, <2>2, <2>3, <2>4
<1>8. CASE Respond(h)
  BY <1>8 DEF Respond
<1>9. CASE Crash(h)
  BY <1>9 DEF Crash
<1> QED
  BY <1>1, <1>2, <1>3, <1>4, <1>5, <1>6, <1>7, <1>8, <1>9 DEF Transition, Enter

\* Every step with one handler keeps it.
LEMMA SeqNext ==
    ASSUME OneHandler, RaceInv, SeqInv, [Next]_vars PROVE SeqInv'
<1>1. CASE \E c \in Clients : Finish(c)
  <2>1. PICK c \in Clients : Finish(c)
    BY <1>1
  <2>2. UNCHANGED <<run, pc, frame>>
    BY <2>1 DEF Finish
  <2>3. \A d \in Clients : saved'[d] \in {saved[d], NoToken}
    BY <2>1 DEF Finish, RaceInv, TypeOK
  <2>4. \A i \in Ids : sessions'[i] = "open" => sessions[i] = "open"
    BY <2>1 DEF Finish, RaceInv, TypeOK
  <2>5. \A h \in Handlers : frame[h].client \in Clients
    BY DEF RaceInv, TypeOK, Frames
  <2>6. \A d \in Clients : saved[d] \in Ids \cup {NoToken}
    BY DEF RaceInv, TypeOK, Tokens
  <2> QED  BY <2>2, <2>3, <2>4, <2>5, <2>6 DEF SeqInv
<1>2. CASE UNCHANGED vars
  BY <1>2 DEF vars, SeqInv
<1> QED  BY <1>1, <1>2, SeqStep DEF Next

\* With one handler every step is one of RunLifecycle, or a stutter.
LEMMA LifecycleStep ==
    ASSUME OneHandler, RaceInv, SeqInv, [Next]_vars
    PROVE  [Lifecycle!Next]_(Lifecycle!vars)
<1> DEFINE admitted == {id \in Ids : sessions[id] # "none"}
<1> USE DEF Lifecycle!vars, RaceInv, TypeOK
<1>1. CASE \E h \in Handlers : TransitionWrite(h)
  <2>1. PICK h \in Handlers : TransitionWrite(h)
    BY <1>1
  <2>2. frame[h].target \in AllowedTransitions[run] /\ run' = frame[h].target
        /\ sessions' = sessions
    BY <2>1 DEF TransitionWrite, SeqInv
  <2> QED
    BY <2>2 DEF AllowedTransitions, RunStatuses, Lifecycle!Next, Lifecycle!Activate,
       Lifecycle!Pause, Lifecycle!Close, Lifecycle!Move
<1>2. CASE \E h \in Handlers : CreateInsert(h)
  <2>1. PICK h \in Handlers : CreateInsert(h)
    BY <1>2
  <2>2. run = "active" /\ run' = run
    BY <2>1 DEF CreateInsert, SeqInv
  <2>3. PICK id \in Ids : sessions[id] = "none" /\ sessions' = [sessions EXCEPT ![id] = "open"]
    BY <2>1 DEF CreateInsert
  <2>4. id \in Ids \ admitted /\ admitted' = admitted \cup {id}
    BY <2>3
  <2> QED  BY <2>2, <2>4 DEF Lifecycle!Next, Lifecycle!Admit
<1>3. CASE \E c \in Clients : Finish(c)
  <2>1. run' = run /\ \A i \in Ids : sessions'[i] # "none" <=> sessions[i] # "none"
    BY <1>3 DEF Finish
  <2> QED  BY <2>1
<1>4. CASE UNCHANGED <<run, sessions>>
  BY <1>4
<1> QED
  BY <1>1, <1>2, <1>3, <1>4 DEF Next, vars, tables, Transition, TransitionRead, Enter, Begin,
     EntryResume, CreateRun, CreateResume, Respond, Crash

\* One request at a time, a run is launched, paused, resumed and closed for
\* good, and admits sessions only while it is active.
THEOREM LifecycleRefinement ==
    ASSUME OneHandler PROVE Spec => LifecycleImplemented
<1>1. SeqInv /\ RaceInv /\ [Next]_vars => SeqInv'
  BY SeqNext
<1>2. SeqInv /\ RaceInv /\ [Next]_vars => [Lifecycle!Next]_(Lifecycle!vars)
  BY LifecycleStep
<1>3. Init => Lifecycle!Init
  BY DEF Init, Lifecycle!Init
<1> QED
  BY <1>1, <1>2, <1>3, SeqInit, RaceInvariant, PTL
  DEF Spec, LifecycleImplemented, Lifecycle!Spec

\* One request at a time, a browser that holds the token of an open session
\* keeps it: coming back never forks a second session.
THEOREM OpenSessionIsKept ==
    ASSUME OneHandler PROVE Spec => OpenSessionKept
<1> DEFINE Kept == \A c \in Clients :
               (saved[c] # NoToken /\ sessions[saved[c]] = "open") =>
                   saved'[c] \in {saved[c], NoToken}
<1>1. SeqInv /\ RaceInv /\ [Next]_vars => SeqInv'
  BY SeqNext
<1>2. SeqInv /\ RaceInv /\ [Next]_vars => [Kept]_vars
  <2> SUFFICES ASSUME SeqInv, RaceInv, Next PROVE Kept
    BY DEF vars
  <2>1. CASE \E h \in Handlers : Respond(h)
    BY <2>1 DEF Respond, SeqInv, RaceInv, TypeOK, Frames
  <2>2. CASE \E h \in Handlers : EntryResume(h)
    BY <2>2 DEF EntryResume, RaceInv, TypeOK
  <2>3. CASE \E c \in Clients : Finish(c)
    BY <2>3 DEF Finish, RaceInv, TypeOK
  <2>4. CASE UNCHANGED saved
    BY <2>4
  <2> QED
    BY <2>1, <2>2, <2>3, <2>4 DEF Next, Transition, TransitionRead, TransitionWrite, Enter,
       Begin, CreateRun, CreateResume, CreateInsert, Crash
<1> QED
  BY <1>1, <1>2, SeqInit, RaceInvariant, PTL DEF Spec, OpenSessionKept
=============================================================================
