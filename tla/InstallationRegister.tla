------------------------ MODULE InstallationRegister ------------------------
(***************************************************************************)
(* What one frozen installation promises to whoever launches it            *)
(* (src/cli/src/lib/installations/update.ts, the docblock of               *)
(* updateInstallation): its release is a register.  An update replaces the *)
(* whole of it in one step, while nothing runs from it; a launch gets the  *)
(* recorded release, entry by entry, and never a mixture.  Only a crash or *)
(* a failed restoration in the middle of a change may leave the            *)
(* installation unsound, and a later completed change repairs it.          *)
(***************************************************************************)
CONSTANTS
    Entries,        \* what a swap replaces: NPM_LIVE_ENTRIES
    Releases,       \* vendor releases
    Gone,           \* no such entry
    Launchers,      \* processes that launch the harness
    None            \* nothing runs

VARIABLES
    release,        \* the recorded release
    policy,         \* "latest" | "pinned"
    sound,          \* the live tree is the recorded release
    running         \* [Launchers -> the tree the child was started from]

rvars == <<release, policy, sound, running>>

Trees == [Entries -> Releases \cup {Gone}]
Policies == {"latest", "pinned"}
Whole(r) == [e \in Entries |-> r]

RegisterInit ==
    /\ release \in Releases /\ policy \in Policies
    /\ sound = TRUE
    /\ running = [l \in Launchers |-> None]

Idle == \A l \in Launchers : running[l] = None

\* A completed update or repair install.
Replace(r, p) ==
    /\ Idle
    /\ release' = r /\ policy' = p /\ sound' = TRUE
    /\ UNCHANGED running

SetPolicy(p) == policy' = p /\ UNCHANGED <<release, sound, running>>

\* A crash, a failed restoration or a failed repair in the middle of a change.
Break == Idle /\ sound' = FALSE /\ UNCHANGED <<release, policy, running>>

Launch(l) ==
    /\ running[l] = None
    /\ \E t \in IF sound THEN {Whole(release)} ELSE Trees :
          running' = [running EXCEPT ![l] = t]
    /\ UNCHANGED <<release, policy, sound>>

Exit(l) ==
    /\ running' = [running EXCEPT ![l] = None]
    /\ UNCHANGED <<release, policy, sound>>

RegisterNext ==
    \/ \E r \in Releases, p \in Policies : Replace(r, p)
    \/ \E p \in Policies : SetPolicy(p)
    \/ Break
    \/ \E l \in Launchers : Launch(l) \/ Exit(l)

RegisterSpec == RegisterInit /\ [][RegisterNext]_rvars
=============================================================================
