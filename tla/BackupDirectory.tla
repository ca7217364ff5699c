-------------------------- MODULE BackupDirectory --------------------------
(***************************************************************************)
(* What a backup directory promises to whoever reads it, a verify or a     *)
(* restore, without packages' stages, cancels or crashes: a rerun may      *)
(* spoil the archives of the manifest it finds, but what still passes is   *)
(* that manifest's own; before a new manifest is written the old one is    *)
(* withdrawn; and a manifest is published with every archive it lists.     *)
(***************************************************************************)
EXTENDS Naturals

CONSTANT Archives   \* <<package, tree>> pairs

VARIABLES
  run,       \* the run in progress, or the last one
  busy,      \* a run is in progress
  of,        \* the run whose manifest is there, 0 for none
  listed,    \* the archives it records a checksum of
  passing    \* those that pass it, with what they hold

vars == <<run, busy, of, listed, passing>>

Capture(a, n) == <<a[1], a[2], n>>
Nothing == [a \in {} |-> a]

Init ==
  /\ run = 0
  /\ busy = FALSE
  /\ of = 0
  /\ listed = {}
  /\ passing = Nothing

Begin ==
  /\ ~busy
  /\ run' = run + 1
  /\ busy' = TRUE
  /\ UNCHANGED <<of, listed, passing>>

\* An archive that is being written again passes no longer, and no archive
\* comes to pass or changes while an older run's manifest lists it.
Spoil ==
  /\ busy
  /\ of # run
  /\ DOMAIN passing' \subseteq DOMAIN passing
  /\ passing' = [a \in DOMAIN passing' |-> passing[a]]
  /\ UNCHANGED <<run, busy, of, listed>>

Withdraw ==
  /\ busy
  /\ of # run
  /\ of' = 0
  /\ listed' = {}
  /\ passing' = Nothing
  /\ UNCHANGED <<run, busy>>

Publish ==
  /\ busy
  /\ of = 0
  /\ of' = run
  /\ listed' \subseteq Archives
  /\ passing' = [a \in listed' |-> Capture(a, run)]
  /\ UNCHANGED <<run, busy>>

\* Whether it has published its manifest or not.
End ==
  /\ busy
  /\ busy' = FALSE
  /\ UNCHANGED <<run, of, listed, passing>>

Next == Begin \/ Spoil \/ Withdraw \/ Publish \/ End

Spec == Init /\ [][Next]_vars
=============================================================================
