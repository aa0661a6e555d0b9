--------------------------- MODULE SearchContract ---------------------------
(***************************************************************************)
(* What a metasearch promises, whatever its threads and its clock do: it   *)
(* asks a set of engines once; each of them settles or is written off      *)
(* while the search still collects; the search closes only when none is    *)
(* left open; it fails only if it wrote an engine off.  SearchPipeline     *)
(* implements this.                                                        *)
(***************************************************************************)
CONSTANTS Searches, Engines

VARIABLES
  phase,    \* "preparing", "collecting", "closing", "answered" or "failed"
  asked,    \* the engines the search asked
  settled,  \* those whose search has ended, in time or not
  late      \* those the search does not wait for any more

contractVars == <<phase, asked, settled, late>>

ContractInit ==
  /\ phase = [s \in Searches |-> "preparing"]
  /\ asked = [s \in Searches |-> {}]
  /\ settled = [s \in Searches |-> {}]
  /\ late = [s \in Searches |-> {}]

Move(s, from, to) ==
  /\ phase[s] = from
  /\ phase' = [phase EXCEPT ![s] = to]

Ask(s) ==
  /\ Move(s, "preparing", "collecting")
  /\ \E es \in (SUBSET Engines) \ {{}} : asked' = [asked EXCEPT ![s] = es]
  /\ UNCHANGED <<settled, late>>

AskNobody(s) ==
  /\ Move(s, "preparing", "closing")
  /\ UNCHANGED <<asked, settled, late>>

Settle(s, e) ==
  /\ e \in asked[s] \ settled[s]
  /\ settled' = [settled EXCEPT ![s] = @ \union {e}]
  /\ UNCHANGED <<phase, asked, late>>

WriteOff(s, e) ==
  /\ phase[s] = "collecting"
  /\ e \in asked[s] \ late[s]
  /\ late' = [late EXCEPT ![s] = @ \union {e}]
  /\ UNCHANGED <<phase, asked, settled>>

StopCollecting(s) ==
  /\ Move(s, "collecting", "closing")
  /\ asked[s] \subseteq settled[s] \union late[s]
  /\ UNCHANGED <<asked, settled, late>>

Answer(s) ==
  /\ Move(s, "closing", "answered")
  /\ UNCHANGED <<asked, settled, late>>

Fail(s) ==
  /\ Move(s, "closing", "failed")
  /\ late[s] /= {}
  /\ UNCHANGED <<asked, settled, late>>

ContractNext ==
  \E s \in Searches :
    \/ Ask(s) \/ AskNobody(s) \/ StopCollecting(s) \/ Answer(s) \/ Fail(s)
    \/ \E e \in Engines : Settle(s, e) \/ WriteOff(s, e)

ContractSpec == ContractInit /\ [][ContractNext]_contractVars
=============================================================================
