--------------------------- MODULE CacheContract ---------------------------
(* What the parameter cache of the config-service promises to its readers,  *)
(* whatever happens inside.  A fetcher begins, and some time later installs *)
(* an answer.  Every value of an installed answer was the store's value at  *)
(* a moment between that fetcher's beginning and the installation; the      *)
(* moments of two parameters may differ, because the store is read in       *)
(* pages.  Nothing is promised about the order in which fetchers install.   *)
EXTENDS Integers, Sequences

CONSTANTS Param,     \* parameters
          Content,   \* what a parameter can be in the store, absence included
          Fetcher,   \* fetches that may be under way at the same time
          Blank      \* the cache of a process that has installed nothing

Snapshot == [Param -> Content]

VARIABLES hist,      \* every state the store has had, oldest first
          cache,     \* what the readers see
          since      \* fetcher -> Len(hist) when it began, 0 when there is none

cvars == <<hist, cache, since>>

\* s could have been read, page by page, between moment `from` and now.
ReadableSince(s, from) ==
    \A p \in Param : \E i \in from .. Len(hist) : s[p] = hist[i][p]

CInit ==
    /\ \E s \in Snapshot : hist = <<s>>
    /\ cache = Blank
    /\ since = [f \in Fetcher |-> 0]

StoreChanges ==
    /\ \E s \in Snapshot : hist' = Append(hist, s)
    /\ UNCHANGED <<cache, since>>

Begin(f) ==
    /\ since[f] = 0
    /\ since' = [since EXCEPT ![f] = Len(hist)]
    /\ UNCHANGED <<hist, cache>>

Install(f) ==
    /\ since[f] # 0
    /\ \E s \in Snapshot : ReadableSince(s, since[f]) /\ cache' = s
    /\ since' = [since EXCEPT ![f] = 0]
    /\ UNCHANGED hist

Abandon(f) ==
    /\ since[f] # 0
    /\ since' = [since EXCEPT ![f] = 0]
    /\ UNCHANGED <<hist, cache>>

\* The process ends, and with it the cache and every fetch under way; an
\* answer installed in the same step is gone as well.
Lose ==
    /\ cache' = Blank
    /\ since' = [f \in Fetcher |-> 0]
    /\ UNCHANGED hist

CNext ==
    \/ StoreChanges
    \/ Lose
    \/ \E f \in Fetcher : Begin(f) \/ Install(f) \/ Abandon(f)

CSpec == CInit /\ [][CNext]_cvars
=============================================================================
