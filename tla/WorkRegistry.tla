---------------------------- MODULE WorkRegistry ----------------------------
(***************************************************************************)
(* What the remote sealer promises to the miners that fetch work from it   *)
(* and submit solutions (ethash/sealer.go): a solution is taken only for a *)
(* block it handed out, no deeper than Stale under the block of the        *)
(* moment, and never once it is closed.  RemoteSealer implements this.     *)
(***************************************************************************)
EXTENDS Naturals

CONSTANTS Tasks,   \* blocks to seal
          Height,  \* Height[b]: number of block b
          Stale    \* staleThreshold

VARIABLES open,    \* not closed
          issued,  \* blocks handed out so far
          newest,  \* the last one, as a set of at most one block
          taken    \* blocks with a solution that was taken

registryVars == <<open, issued, newest, taken>>

RegistryInit == open = TRUE /\ issued = {} /\ newest = {} /\ taken = {}

Issue(b) ==
  /\ open
  /\ issued' = issued \union {b} /\ newest' = {b}
  /\ UNCHANGED <<open, taken>>

Take(b) ==
  /\ open
  /\ b \in issued
  /\ \A n \in newest : Height[b] + Stale > Height[n]
  /\ taken' = taken \union {b}
  /\ UNCHANGED <<open, issued, newest>>

CloseRegistry == open' = FALSE /\ UNCHANGED <<issued, newest, taken>>

RegistryNext == (\E b \in Tasks : Issue(b) \/ Take(b)) \/ CloseRegistry

RegistrySpec == RegistryInit /\ [][RegistryNext]_registryVars
=============================================================================
