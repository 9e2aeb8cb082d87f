------------------------------ MODULE CardTest ------------------------------
(***************************************************************************)
(* templates/mmcsd.jinja2, and mmcsd_spi.jinja2, which differs in the bus: *)
(* every timer period a memory card is mounted if none is, and otherwise   *)
(* one position of it is tested by transfers of one block and of a whole   *)
(* arena.  The transfers run beside main() and report through a callback   *)
(* to a flag on the stack of the function that waits for it.  Cards are    *)
(* inserted and removed at any time.  Sizes are in blocks.                 *)
(***************************************************************************)
EXTENDS Naturals

CONSTANTS
  Arena,         \* ARENA_SIZE / BLOCK_SIZE
  Cards,         \* capacities of the good cards a user may insert
  WriteMode      \* testWriteMode

CardAssumption ==
  /\ Arena \in Nat \ {0, 1}
  /\ Cards # {} /\ \A c \in Cards : c \in Nat \ {0} /\ c % Arena = 0
  /\ WriteMode \in BOOLEAN

None == 0
Unusable == 1   \* a card that init() or the query of its size refuses
Tests == IF WriteMode THEN 4 ELSE 2           \* calls of dataWrite(), dataRead()
Size(t) == IF t \in {1, 3} THEN 1 ELSE Arena  \* a single block, then the arena

VARIABLES
  inserted,      \* capacity of the card in the slot, None or Unusable
  live,          \* the card in the slot is the one that was mounted
  busy, result,  \* a transfer is going on; status of the last one
  timer,         \* event of main(), raised by the timer
  done, watched, \* event of dataRead(), and: it is registered as the callback
  mounted,       \* card # NULL
  capacity, position,
  pc, test,      \* test: which of the transfers of this round
  failed,        \* unmount of main()
  faults         \* fixed: a good card may fail to answer

slot == <<inserted, live>>
transfer == <<busy, result>>
vars == <<slot, transfer, timer, done, watched, mounted, capacity, position,
          pc, test, failed>>

-----------------------------------------------------------------------------
(* The user, the timer and the driver                                      *)

Insert ==
  /\ inserted = None
  /\ inserted' \in {Unusable} \cup Cards
  /\ UNCHANGED <<live, transfer, timer, done, watched, mounted, capacity,
                 position, pc, test, failed>>

Remove ==
  /\ inserted # None
  /\ inserted' = None /\ live' = FALSE
  /\ UNCHANGED <<transfer, timer, done, watched, mounted, capacity, position,
                 pc, test, failed>>

TimerOverflow ==
  /\ timer' = TRUE
  /\ UNCHANGED <<slot, transfer, done, watched, mounted, capacity, position,
                 pc, test, failed>>

(* The driver ends every transfer, that of a removed card with an error.   *)
TransferEnds ==
  /\ busy
  /\ busy' = FALSE
  /\ result' \in IF faults THEN {live, FALSE} ELSE {live}
  /\ done' = (done \/ watched)
  /\ UNCHANGED <<slot, timer, watched, mounted, capacity, position, pc, test,
                 failed>>

-----------------------------------------------------------------------------
(* main()                                                                  *)

Init ==
  /\ faults \in BOOLEAN
  /\ inserted \in {None, Unusable} \cup Cards /\ live = FALSE
  /\ busy = FALSE /\ result = FALSE
  /\ timer = TRUE
  /\ done = FALSE /\ watched = FALSE
  /\ mounted = FALSE /\ capacity = 0 /\ position = 0
  /\ pc = "wait" /\ test = 1 /\ failed = FALSE

(* Mutation: a new card is tested where the last one was left.             *)
MainMountKeeps ==
  /\ pc = "wait" /\ timer /\ ~mounted
  /\ timer' = FALSE
  /\ \E ok \in {TRUE, ~faults} : IF ok /\ inserted \in Cards
       THEN /\ mounted' = TRUE /\ live' = TRUE
            /\ capacity' = inserted /\ UNCHANGED position
            /\ pc' = "start"
       ELSE UNCHANGED <<mounted, live, capacity, position, pc>>
  /\ UNCHANGED <<inserted, transfer, done, watched, test, failed>>

(* A card that answers is mounted and tested in the same round.            *)
MainMount ==
  /\ pc = "wait" /\ timer /\ ~mounted
  /\ timer' = FALSE
  /\ \E ok \in {TRUE, ~faults} : IF ok /\ inserted \in Cards
       THEN /\ mounted' = TRUE /\ live' = TRUE
            /\ capacity' = inserted /\ position' = 0
            /\ pc' = "start"
       ELSE UNCHANGED <<mounted, live, capacity, position, pc>>
  /\ UNCHANGED <<inserted, transfer, done, watched, test, failed>>

MainTest ==
  /\ pc = "wait" /\ timer /\ mounted
  /\ timer' = FALSE
  /\ pc' = "start"
  /\ UNCHANGED <<slot, transfer, done, watched, mounted, capacity, position,
                 test, failed>>

(* dataRead() or dataWrite() returns ok; the other tests of the round are  *)
(* made even if this one has failed.                                       *)
TestEnds(ok) ==
  /\ failed' = (failed \/ ~ok)
  /\ IF test < Tests THEN test' = test + 1 /\ pc' = "start"
                     ELSE test' = 1 /\ pc' = "finish"

(* Mutation: the callback stays registered when the transfer is refused.   *)
StartRefusedWatched ==
  /\ ~live \/ faults
  /\ TestEnds(FALSE)
  /\ watched' = TRUE
  /\ UNCHANGED <<transfer, done>>

(* The driver may notice at once that the card is gone.                    *)
StartRefused ==
  /\ ~live \/ faults
  /\ TestEnds(FALSE)
  /\ watched' = FALSE
  /\ UNCHANGED <<transfer, done>>

StartAccepted ==
  /\ busy' = TRUE /\ watched' = TRUE /\ done' = FALSE
  /\ pc' = "sync"
  /\ UNCHANGED <<result, test, failed>>

MainStart ==
  /\ pc = "start"
  /\ StartRefused \/ StartAccepted
  /\ UNCHANGED <<slot, timer, mounted, capacity, position>>

(* Mutation: the function does not wait for its event.                     *)
MainSyncEarly ==
  /\ pc = "sync"
  /\ watched' = FALSE /\ done' = FALSE
  /\ TestEnds(result)
  /\ UNCHANGED <<slot, transfer, timer, mounted, capacity, position>>

(* The event, the status, the callback is unregistered.                    *)
MainSync ==
  /\ pc = "sync" /\ done
  /\ watched' = FALSE /\ done' = FALSE
  /\ TestEnds(result)
  /\ UNCHANGED <<slot, transfer, timer, mounted, capacity, position>>

(* Mutation: a failed card stays mounted.                                  *)
MainFinishKeeps ==
  /\ pc = "finish"
  /\ position' = IF position + Arena >= capacity THEN 0 ELSE position + Arena
  /\ failed' = FALSE
  /\ pc' = "wait"
  /\ UNCHANGED <<slot, transfer, timer, done, watched, mounted, capacity, test>>

(* A failed card is unmounted, a good one goes on to its next position.    *)
MainFinish ==
  /\ pc = "finish"
  /\ IF failed
       THEN mounted' = FALSE /\ live' = FALSE /\ UNCHANGED position
       ELSE /\ position' = IF position + Arena >= capacity THEN 0 ELSE position + Arena
            /\ UNCHANGED <<mounted, live>>
  /\ failed' = FALSE
  /\ pc' = "wait"
  /\ UNCHANGED <<inserted, transfer, timer, done, watched, capacity, test>>

Main == MainMount \/ MainTest \/ MainStart \/ MainSync \/ MainFinish

Next ==
  /\ Main \/ Insert \/ Remove \/ TimerOverflow \/ TransferEnds
  /\ UNCHANGED faults

SafeSpec == Init /\ [][Next]_<<vars, faults>>

(* main() runs, the timer counts, the driver ends what it has accepted.    *)
Spec ==
  /\ SafeSpec
  /\ WF_vars(Main) /\ WF_vars(TimerOverflow) /\ WF_vars(TransferEnds)

-----------------------------------------------------------------------------
TypeOK ==
  /\ inserted \in {None, Unusable} \cup Cards /\ capacity \in {0} \cup Cards
  /\ {live, busy, result, timer, done, watched, mounted, failed, faults} \subseteq BOOLEAN
  /\ position \in Nat
  /\ pc \in {"wait", "start", "sync", "finish"}
  /\ test \in 1..Tests

(* No transfer reaches past the end of the card it is made on, whatever    *)
(* cards have been there before.                                           *)
InsideCard == busy => position + Size(test) <= capacity

(* The arena belongs to one transfer at a time, and the driver never holds *)
(* the address of an event whose function has returned: while a transfer   *)
(* goes on main() starts none, marks no buffer and drops no card.          *)
OneTransfer == busy \/ watched => pc = "sync"

(* A card that stays in the slot is tested again and again at every        *)
(* position.                                                               *)
CardFound ==
  \A c \in Cards :
    <>[](inserted = c /\ ~faults) =>
      \A p \in 0 .. c - 1 : p % Arena = 0 =>
        []<>(live /\ position = p /\ pc = "finish" /\ ~failed)

(* Without a good card in the slot none stays mounted.                     *)
SlotEmptied == <>[](inserted \notin Cards) => <>[]~mounted
=============================================================================
