----------------------------- MODULE MCRunEntry -----------------------------
(***************************************************************************)
(* Small instances of RunEntry.  Threads, browsers and sessions are        *)
(* interchangeable.                                                        *)
(***************************************************************************)
EXTENDS RunEntry, TLC

EntrySymmetry == Permutations(Handlers) \cup Permutations(Clients) \cup Permutations(Ids)
=============================================================================
