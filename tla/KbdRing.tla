------------------------------ MODULE KbdRing -------------------------------
(***************************************************************************)
(* The key queue of keyboard.c, shared without a lock between the IRQ 1    *)
(* handler, which enqueues, and the command loop of cmain.c, which polls   *)
(* kbd_isempty, dequeues and halts the processor until the next interrupt. *)
(* There is one processor; the handler runs through an interrupt gate, so  *)
(* it is one step, and it can run between any two steps of the command     *)
(* loop while the interrupt flag is set.                                   *)
(*                                                                         *)
(* Decoding (which bytes make a key) is in module KbdDecode; here the      *)
(* handler enqueues an arbitrary key.                                      *)
(***************************************************************************)
EXTENDS Integers, Sequences, Ring

CONSTANTS
  KBD_QUEUE_SIZE,   \* 128 in the code
  Keys,             \* the values the decoder can enqueue
  NoKey,            \* the 0 that kbd_dequeue returns for an empty queue
  CliKey,           \* 'c': the command that clears the interrupt flag
  HaltKey,          \* 'h': the command that leaves the loop for good
  RiskyKeys,        \* 'r' and 'z': reboot, and a division by zero
  MaxKeys           \* bound: key interrupts in one behaviour

ASSUME SizeAssumption == KBD_QUEUE_SIZE \in Nat \ {0}
ASSUME KeyAssumption  == NoKey \notin Keys /\ MaxKeys \in Nat

VARIABLES
  kbd_buffer, kbd_size, kbd_head, kbd_tail,
  iflag,      \* the processor's interrupt flag
  pc,         \* where the command loop is
  c,          \* its local: the key dequeued
  reg,        \* the value of kbd_size read by --kbd_size, not yet written back
  accepted,   \* history: every key stored in the ring, in order
  taken,      \* history: every key the command loop dispatched, in order
  arrivals    \* history: number of key interrupts

ringvars == <<kbd_buffer, kbd_size, kbd_head, kbd_tail>>
vars == <<ringvars, iflag, pc, c, reg, accepted, taken, arrivals>>

N == KBD_QUEUE_SIZE

(* The command loop, by the statement it is about to execute. *)
Labels == {"poll", "dequeue", "cli", "take", "load", "store", "sti",
           "dispatch", "hlt", "asleep", "stopped"}

Init ==
  /\ kbd_buffer = [s \in 0..N-1 |-> NoKey]
  /\ kbd_size = 0 /\ kbd_head = 0 /\ kbd_tail = 0
  /\ iflag = TRUE
  /\ pc = "poll"
  /\ c = NoKey
  /\ reg = 0
  /\ accepted = <<>> /\ taken = <<>>
  /\ arrivals = 0

-----------------------------------------------------------------------------
(* Interrupts *)

(* Faulty: the last slot stays empty. *)
EnqueueOffByOne(k) ==
  IF kbd_size = N - 1
    THEN UNCHANGED <<kbd_buffer, kbd_tail, kbd_size, accepted>>
    ELSE /\ kbd_buffer' = [kbd_buffer EXCEPT ![kbd_tail] = k]
         /\ kbd_tail' = Inc(N, kbd_tail)
         /\ kbd_size' = kbd_size + 1
         /\ accepted' = Append(accepted, k)

(* kbd_enqueue: a full queue discards the key. *)
kbd_enqueue(k) ==
  IF kbd_size = N
    THEN UNCHANGED <<kbd_buffer, kbd_tail, kbd_size, accepted>>
    ELSE /\ kbd_buffer' = [kbd_buffer EXCEPT ![kbd_tail] = k]
         /\ kbd_tail' = Inc(N, kbd_tail)
         /\ kbd_size' = kbd_size + 1
         /\ accepted' = Append(accepted, k)

(* Faulty: the interrupt only resumes the hlt. *)
WakeToHlt == pc' = IF pc = "asleep" THEN "hlt" ELSE pc

(* Any interrupt ends a hlt: the loop restarts and polls the queue again. *)
Wake == pc' = IF pc = "asleep" THEN "poll" ELSE pc

KbdIrq(k) ==
  /\ iflag
  /\ arrivals < MaxKeys
  /\ kbd_enqueue(k)
  /\ arrivals' = arrivals + 1
  /\ Wake
  /\ UNCHANGED <<kbd_head, iflag, c, reg, taken>>

(* The timer interrupt touches nothing here, but it ends a hlt. *)
PitIrq ==
  /\ iflag
  /\ pc = "asleep"
  /\ Wake
  /\ UNCHANGED <<ringvars, iflag, c, reg, accepted, taken, arrivals>>

-----------------------------------------------------------------------------
(* The command loop *)

Goto(from, to) == pc = from /\ pc' = to

(* Faulty: the loop does not ask whether there is a key. *)
NoPoll ==
  /\ Goto("poll", "dequeue")
  /\ UNCHANGED <<ringvars, iflag, c, reg, accepted, taken, arrivals>>

(* while(!kbd_isempty()) *)
kbd_isempty ==
  /\ pc = "poll"
  /\ pc' = IF kbd_size = 0 THEN "hlt" ELSE "dequeue"
  /\ UNCHANGED <<ringvars, iflag, c, reg, accepted, taken, arrivals>>

(* kbd_dequeue: if(kbd_size == 0) return 0; *)
DequeueTest ==
  /\ pc = "dequeue"
  /\ pc' = IF kbd_size = 0 THEN "dispatch" ELSE "cli"
  /\ c' = IF kbd_size = 0 THEN NoKey ELSE c
  /\ UNCHANGED <<ringvars, iflag, reg, accepted, taken, arrivals>>

(* Faulty: the calls to disable() and enable() are missing. *)
NoDisable ==
  /\ Goto("cli", "take")
  /\ UNCHANGED <<ringvars, iflag, c, reg, accepted, taken, arrivals>>

NoEnable ==
  /\ Goto("sti", "dispatch")
  /\ UNCHANGED <<ringvars, iflag, c, reg, accepted, taken, arrivals>>

Disable ==
  /\ Goto("cli", "take")
  /\ iflag' = FALSE
  /\ UNCHANGED <<ringvars, c, reg, accepted, taken, arrivals>>

(* c = kbd_buffer[kbd_head++], wrapped *)
TakeKey ==
  /\ Goto("take", "load")
  /\ c' = kbd_buffer[kbd_head]
  /\ kbd_head' = Inc(N, kbd_head)
  /\ UNCHANGED <<kbd_buffer, kbd_size, kbd_tail, iflag, reg, accepted, taken, arrivals>>

(* --kbd_size, which the language does not promise to be one instruction *)
LoadSize ==
  /\ Goto("load", "store")
  /\ reg' = kbd_size
  /\ UNCHANGED <<ringvars, iflag, c, accepted, taken, arrivals>>

StoreSize ==
  /\ Goto("store", "sti")
  /\ kbd_size' = reg - 1
  /\ UNCHANGED <<kbd_buffer, kbd_head, kbd_tail, iflag, c, reg, accepted, taken, arrivals>>

Enable ==
  /\ Goto("sti", "dispatch")
  /\ iflag' = TRUE
  /\ UNCHANGED <<ringvars, c, reg, accepted, taken, arrivals>>

(* The switch on the key.  'h' returns to boot.S, which clears the flag    *)
(* and halts.  'r' pulses the reset line and 'z' computes 1/0, undefined   *)
(* in C: the machine stops, or the loop runs on.  'c' executes cli.  Every *)
(* other key prints something, and the loop polls again.                   *)
Dispatch ==
  /\ \/ /\ c \in RiskyKeys \cup {HaltKey}
        /\ Goto("dispatch", "stopped")
        /\ iflag' = FALSE
     \/ /\ c # HaltKey
        /\ Goto("dispatch", "poll")
        /\ iflag' = (iflag /\ c # CliKey)
  /\ taken' = Append(taken, c)
  /\ UNCHANGED <<ringvars, c, reg, accepted, arrivals>>

Hlt ==
  /\ Goto("hlt", "asleep")
  /\ UNCHANGED <<ringvars, iflag, c, reg, accepted, taken, arrivals>>

Command == kbd_isempty \/ DequeueTest \/ Disable \/ TakeKey \/ LoadSize
             \/ StoreSize \/ Enable \/ Dispatch \/ Hlt

Next == Command \/ PitIrq \/ \E k \in Keys : KbdIrq(k)

(* The processor keeps executing, and the timer keeps ticking: nothing     *)
(* assumes that a key is ever pressed.                                     *)
Spec == Init /\ [][Next]_vars
FairSpec == Spec /\ WF_vars(Command) /\ WF_vars(PitIrq)

-----------------------------------------------------------------------------
(* Properties *)

(* The ring, its indices and the locals keep their types. *)
TypeOK ==
  /\ kbd_buffer \in [0..N-1 -> Keys \cup {NoKey}]
  /\ kbd_size \in 0..N
  /\ kbd_head \in 0..N-1
  /\ kbd_tail \in 0..N-1
  /\ iflag \in BOOLEAN
  /\ pc \in Labels
  /\ c \in Keys \cup {NoKey}
  /\ reg \in 0..N
  /\ accepted \in Seq(Keys)
  /\ taken \in Seq(Keys \cup {NoKey})
  /\ arrivals \in 0..MaxKeys

(* Keys that left the ring but are still in the loop's local c. *)
InHand == IF pc \in {"sti", "dispatch"} THEN 1 ELSE 0

(* The command loop dispatches exactly the keys that kbd_enqueue accepted, *)
(* in the order of the interrupts, none twice and none skipped, however    *)
(* the IRQ 1 handler interleaves with kbd_isempty and kbd_dequeue.         *)
FifoDelivery ==
  /\ Len(accepted) = Len(taken) + InHand + kbd_size
  /\ \A i \in 1..Len(taken) : taken[i] = accepted[i]

(* The early return of kbd_dequeue is dead code for its only caller: a     *)
(* queue seen non-empty by kbd_isempty still is when kbd_dequeue tests it, *)
(* so the loop never dispatches the 0 that means "no key".                 *)
NoPhantomKey == pc = "dispatch" => c # NoKey

(* kbd_dequeue's cli/sti pair never leaves the flag clear behind it: the   *)
(* processor halts with interrupts off only after the 'c' command, and     *)
(* then with an empty queue, so no accepted key is stranded by it.         *)
SleepsWakeable ==
  pc = "asleep" /\ ~iflag =>
    /\ kbd_size = 0
    /\ taken # <<>> /\ taken[Len(taken)] = CliKey

(* The slot of the oldest key: TakeKey has moved kbd_head past it until    *)
(* StoreSize removes it from the count.                                    *)
Oldest ==
  IF pc \notin {"load", "store"} THEN kbd_head
  ELSE IF kbd_head = 0 THEN N - 1 ELSE kbd_head - 1

QueueView == [i \in 1..kbd_size |-> kbd_buffer[Slot(N, Oldest, i - 1)]]
OutView   == IF InHand = 1 THEN Append(taken, c) ELSE taken

(* The ring, its four variables and the two-sided protocol around it, is a *)
(* bounded FIFO queue that discards a key only when it is full.            *)
Queue == INSTANCE KbdQueue
           WITH Capacity <- N, queue <- QueueView, out <- OutView
IsQueue == Queue!Spec

(* An accepted key is dispatched, also when the interrupt that brought it  *)
(* fell between the poll that found the queue empty and the hlt (the timer *)
(* then ends the hlt), unless the user stopped the machine.                *)
KeysDispatched ==
  \A n \in 1..MaxKeys :
    (Len(accepted) >= n) ~> (Len(taken) >= n \/ pc = "stopped")
=============================================================================
