--------------------------------- MODULE Irq --------------------------------
(***************************************************************************)
(* Interrupts: irq.c (the handler lists, their installation and removal,   *)
(* the mask registers, the dispatcher), the stubs of irq_asm.S and, as far *)
(* as the code depends on them, the two interrupt controllers.             *)
(*                                                                         *)
(* There is one processor.  A stub clears the interrupt flag, so a         *)
(* dispatch is never interrupted, but devices raise their lines at any     *)
(* time; and a dispatch falls between any two steps of install or          *)
(* uninstall at which the flag is set.                                     *)
(***************************************************************************)
EXTENDS Integers

CONSTANTS
  Handler,      \* the irq_handler_t objects, one for each device
  Null,         \* the null pointer
  LineOf,       \* the interrupt line of each handler; 16 is int $48
  Level,        \* level-triggered (PCI) lines; the others are edge-triggered
  Pulses,       \* devices that do not wait to be served (the timer)
  MaxRaises,    \* bound: requests of all devices in one behaviour
  MaxCalls      \* bound: calls of install, uninstall and int $48

(* install_irq_handler indexes an array of 18 entries without a check.     *)
(* Only PCI lines are shared.                                              *)
ASSUME LineAssumption ==
  /\ Null \notin Handler
  /\ LineOf \in [Handler -> 0..17]
  /\ \A h, g \in Handler : LineOf[h] = LineOf[g] /\ h # g => LineOf[h] \in Level

ASSUME BoundAssumption == MaxRaises \in Nat /\ MaxCalls \in Nat

VARIABLES
  irq_handlers, next,   \* heads of the lists, and the objects' next fields
  imr,                  \* masked lines
  irr,                  \* requests latched on edge-triggered lines
  isrM, isrS,           \* lines in service, master and slave
  raised,               \* devices that want service
  iflag,
  pc, arg,              \* the main program: its place in a call, the handler
  cur, ptr,             \* the dispatcher: the line, and the local ptr
  early,                \* history: devices whose request found no handler
  raises, calls

lists  == <<irq_handlers, next>>
pic    == <<imr, irr, isrM, isrS>>
device == <<raised, early, raises>>
main   == <<pc, arg, calls>>
vars   == <<lists, pic, device, iflag, main, cur, ptr>>

Lines  == 0..17
Idle   == 99     \* no line is being dispatched

(* set_irqs: every line but the cascade is masked. *)
Init ==
  /\ irq_handlers = [l \in Lines |-> Null]
  /\ next = [h \in Handler |-> Null]
  /\ imr = 0..15 \ {2} /\ irr = {} /\ isrM = {} /\ isrS = {}
  /\ raised = {} /\ early = {} /\ raises = 0
  /\ iflag = TRUE
  /\ pc = "idle" /\ arg = Null /\ calls = 0
  /\ cur = Idle /\ ptr = Null

Devices(l) == {h \in Handler : LineOf[h] = l}

(* The nodes that a list leads to: the smallest set that holds its head    *)
(* and the successor of each of its members.                               *)
ListFrom(head, succ) ==
  {h \in Handler : \A S \in SUBSET Handler :
     (/\ head \in S \cup {Null}
      /\ \A g \in S : succ[g] \in S \cup {Null}) => h \in S}

(* The handlers the dispatcher finds on a line; it would not come to an    *)
(* end among nodes that only lead to each other.                           *)
Chain(l)    == ListFrom(irq_handlers[l], next)
Circular(l) == \E S \in SUBSET Chain(l) : S # {} /\ \A h \in S : next[h] \in S
Linked(h)   == h \in Chain(LineOf[h])

-----------------------------------------------------------------------------
(* The devices and the controllers *)

Asserted(l) == \E h \in raised : LineOf[h] = l
Pending(l)  == IF l \in Level THEN Asserted(l) ELSE l \in irr

(* A device wants service: a new edge, unless the line was up already.  A  *)
(* PCI device is started after its handler is installed (probe_pcnet32)    *)
(* and is quiet before it is removed.                                      *)
Raise(h) ==
  /\ raises < MaxRaises /\ LineOf[h] < 16
  /\ h \notin raised \/ h \in Pulses
  /\ LineOf[h] \in Level => Linked(h) /\ ~(arg = h /\ pc \in {"ucli", "unlink"})
  /\ raised' = raised \cup {h}
  /\ irr' = IF LineOf[h] \in Level THEN irr ELSE irr \cup {LineOf[h]}
  /\ raises' = raises + 1
  /\ UNCHANGED <<lists, imr, isrM, isrS, early, iflag, main, cur, ptr>>

(* The slave's requests reach the master on line 2. *)
OnMaster(l) == IF l >= 8 THEN 2 ELSE l

(* A controller offers a request that is not masked and has a higher       *)
(* priority than everything in service.                                    *)
Offered(l) ==
  /\ Pending(l) /\ l \notin imr /\ OnMaster(l) \notin imr
  /\ \A s \in isrM : OnMaster(l) < s
  /\ l >= 8 => \A s \in isrS : l < s

Before(k, l) ==
  OnMaster(k) < OnMaster(l) \/ (OnMaster(k) = OnMaster(l) /\ k < l)

(* A non-specific end of interrupt: the highest priority in service. *)
EndOf(isr) == isr \ {s \in isr : \A t \in isr : s <= t}

-----------------------------------------------------------------------------
(* Dispatch *)

(* The processor takes the request and enters the stub of line l.          *)
Accept(l) ==
  /\ iflag /\ cur = Idle /\ pc # "halted"
  /\ Offered(l) /\ \A k \in 0..15 : Before(k, l) => ~Offered(k)
  /\ irr' = irr \ {l}
  /\ isrM' = isrM \cup {OnMaster(l)}
  /\ isrS' = IF l >= 8 THEN isrS \cup {l} ELSE isrS
  /\ iflag' = FALSE
  /\ cur' = l /\ ptr' = irq_handlers[l]
  /\ early' = early \cup {h \in raised : LineOf[h] = l /\ ~Linked(h)}
  /\ UNCHANGED <<lists, imr, raised, raises, main>>

(* int $48 in the main program goes through the same stub and dispatcher. *)
Syscall ==
  /\ pc = "idle" /\ cur = Idle /\ calls < MaxCalls
  /\ irq_handlers[16] # Null
  /\ iflag' = FALSE
  /\ cur' = 16 /\ ptr' = irq_handlers[16]
  /\ calls' = calls + 1
  /\ UNCHANGED <<lists, pic, device, pc, arg>>

(* Faulty: the list is walked without calling anyone. *)
CallNobody ==
  /\ cur # Idle /\ ptr # Null /\ pc # "halted"
  /\ ptr' = next[ptr]
  /\ UNCHANGED <<lists, pic, device, iflag, main, cur>>

(* ptr->handler(r, ptr->data): the device is served. *)
CallHandler ==
  /\ cur # Idle /\ ptr # Null /\ pc # "halted"
  /\ raised' = raised \ {ptr}
  /\ early' = early \ {ptr}
  /\ ptr' = next[ptr]
  /\ UNCHANGED <<lists, pic, raises, iflag, main, cur>>

(* Faulty: the slave is acknowledged only above its first line. *)
EoiAbove(l) ==
  /\ isrS' = IF l > 8 THEN EndOf(isrS) ELSE isrS
  /\ isrM' = EndOf(isrM)

(* Faulty: the slave alone is acknowledged for its lines. *)
EoiEither(l) ==
  /\ isrS' = IF l >= 8 THEN EndOf(isrS) ELSE isrS
  /\ isrM' = IF l >= 8 THEN isrM ELSE EndOf(isrM)

Eoi(l) ==
  /\ isrS' = IF l >= 8 THEN EndOf(isrS) ELSE isrS
  /\ isrM' = EndOf(isrM)

(* The list is done: the controllers are told, iret restores the flag. *)
EndDispatch ==
  /\ cur # Idle /\ ptr = Null /\ pc # "halted"
  /\ Eoi(cur)
  /\ cur' = Idle
  /\ iflag' = TRUE
  /\ UNCHANGED <<lists, imr, irr, device, main, ptr>>

(* An exception, in the main program or in a handler, halts for good. *)
Exception ==
  /\ pc # "halted"
  /\ pc' = "halted" /\ iflag' = FALSE
  /\ UNCHANGED <<lists, pic, device, arg, calls, cur, ptr>>

-----------------------------------------------------------------------------
(* The main program, which runs while no dispatch does *)

Running   == cur = Idle
Goto(from, to) == Running /\ pc = from /\ pc' = to
line      == LineOf[arg]

CallInstall(h) ==
  /\ ~Linked(h) /\ calls < MaxCalls
  /\ Goto("idle", "unmask")
  /\ arg' = h /\ calls' = calls + 1
  /\ UNCHANGED <<lists, pic, device, iflag, cur, ptr>>

(* if(irq_handlers[irq]==0) irq_clear_mask(irq): the register is changed   *)
(* with interrupts off, and they are on afterwards.  int $48 has no mask.  *)
Unmask ==
  /\ Goto("unmask", "cli")
  /\ IF irq_handlers[line] = Null /\ line < 16
       THEN imr' = imr \ {line} /\ iflag' = TRUE
       ELSE UNCHANGED <<imr, iflag>>
  /\ UNCHANGED <<lists, irr, isrM, isrS, device, arg, calls, cur, ptr>>

(* Faulty: disable() is missing. *)
NoCli(from, to) ==
  /\ Goto(from, to)
  /\ UNCHANGED <<lists, pic, device, iflag, arg, calls, cur, ptr>>

Cli(from, to) ==
  /\ Goto(from, to)
  /\ iflag' = FALSE
  /\ UNCHANGED <<lists, pic, device, arg, calls, cur, ptr>>

Sti(from, to) ==
  /\ Goto(from, to)
  /\ iflag' = TRUE
  /\ UNCHANGED <<lists, pic, device, arg, calls, cur, ptr>>

(* Faulty: the head is stored first, and read back as the successor. *)
LinkSelf ==
  /\ Goto("next", "head")
  /\ next' = [next EXCEPT ![arg] = arg]
  /\ UNCHANGED <<irq_handlers, pic, device, iflag, arg, calls, cur, ptr>>

(* handler->next=irq_handlers[irq] *)
LinkNext ==
  /\ Goto("next", "head")
  /\ next' = [next EXCEPT ![arg] = irq_handlers[line]]
  /\ UNCHANGED <<irq_handlers, pic, device, iflag, arg, calls, cur, ptr>>

(* irq_handlers[irq]=handler *)
LinkHead ==
  /\ Goto("head", "sti")
  /\ irq_handlers' = [irq_handlers EXCEPT ![line] = arg]
  /\ UNCHANGED <<next, pic, device, iflag, arg, calls, cur, ptr>>

CallUninstall(h) ==
  /\ Linked(h) /\ calls < MaxCalls
  /\ LineOf[h] \in Level => h \notin raised
  /\ Goto("idle", "ucli")
  /\ arg' = h /\ calls' = calls + 1
  /\ UNCHANGED <<lists, pic, device, iflag, cur, ptr>>

(* Faulty: the head of the list becomes empty instead of its second node. *)
UnlinkAll ==
  /\ Goto("unlink", "usti")
  /\ irq_handlers' = [irq_handlers EXCEPT ![line] = IF @ = arg THEN Null ELSE @]
  /\ next' = [h \in Handler |-> IF next[h] = arg /\ Linked(h) THEN next[arg] ELSE next[h]]
  /\ UNCHANGED <<pic, device, iflag, arg, calls, cur, ptr>>

(* The head, or the node of the list whose next is the handler, passes     *)
(* over it; the handler keeps its own next field.                          *)
Unlink ==
  /\ Goto("unlink", "usti")
  /\ IF irq_handlers[line] = arg
       THEN /\ irq_handlers' = [irq_handlers EXCEPT ![line] = next[arg]]
            /\ UNCHANGED next
       ELSE /\ next' = [h \in Handler |->
                          IF h \in Chain(line) /\ next[h] = arg THEN next[arg] ELSE next[h]]
            /\ UNCHANGED irq_handlers
  /\ UNCHANGED <<pic, device, iflag, arg, calls, cur, ptr>>

(* Faulty: the line is masked even if other handlers are left. *)
MaskAlways ==
  /\ Goto("mask", "idle")
  /\ imr' = imr \cup {line}
  /\ UNCHANGED <<lists, irr, isrM, isrS, device, iflag, arg, calls, cur, ptr>>

(* if(irq_handlers[irq]==0 && irq!=2) irq_set_mask(irq); for int $48 the   *)
(* bit falls off the register.                                             *)
Mask ==
  /\ Goto("mask", "idle")
  /\ IF irq_handlers[line] = Null /\ line # 2
       THEN imr' = imr \cup ({line} \cap 0..15) /\ iflag' = TRUE
       ELSE UNCHANGED <<imr, iflag>>
  /\ UNCHANGED <<lists, irr, isrM, isrS, device, arg, calls, cur, ptr>>

Install   == Unmask \/ Cli("cli", "next") \/ LinkNext \/ LinkHead \/ Sti("sti", "idle")
Uninstall == Cli("ucli", "unlink") \/ Unlink \/ Sti("usti", "mask") \/ Mask
Dispatch  == CallHandler \/ EndDispatch \/ \E l \in 0..15 : Accept(l)

Next == Install \/ Uninstall \/ Dispatch \/ Syscall \/ Exception
          \/ \E h \in Handler : Raise(h) \/ CallInstall(h) \/ CallUninstall(h)

Spec == Init /\ [][Next]_vars

(* The processor completes the calls it began and takes the interrupts it  *)
(* is offered; no device has to want service and no call has to be made.   *)
FairSpec == Spec /\ WF_vars(Install) /\ WF_vars(Uninstall) /\ WF_vars(Dispatch)

-----------------------------------------------------------------------------
(* Properties *)

(* The pointers, the register contents and the bounds keep their types. *)
TypeOK ==
  /\ irq_handlers \in [Lines -> Handler \cup {Null}]
  /\ next \in [Handler -> Handler \cup {Null}]
  /\ imr \subseteq 0..15 /\ irr \subseteq 0..15
  /\ isrM \subseteq 0..7 /\ isrS \subseteq 8..15
  /\ raised \subseteq Handler /\ early \subseteq raised
  /\ raises \in 0..MaxRaises /\ calls \in 0..MaxCalls
  /\ iflag \in BOOLEAN
  /\ pc \in {"idle", "unmask", "cli", "next", "head", "sti", "ucli", "unlink", "usti",
             "mask", "halted"}
  /\ arg \in Handler \cup {Null}
  /\ cur \in Lines \cup {Idle} /\ ptr \in Handler \cup {Null}

(* The lists stay sound through any sequence of install and uninstall,     *)
(* also of one object again and again, whose next field is then stale:     *)
(* none is circular and no object is on the list of another line.          *)
ListsSound ==
  \A l \in Lines : ~Circular(l) /\ Chain(l) \subseteq Devices(l)

(* Only the handler the call is about comes or goes. *)
OthersStay ==
  [][ \A h \in Handler \ {arg} : Linked(h)' = Linked(h) ]_vars

(* No dispatch walks a list that the main program is changing, and each    *)
(* node it visits is on the list of its line.                              *)
WalkSafe ==
  cur # Idle =>
    /\ pc \notin {"next", "head", "sti", "unlink", "usti"}
    /\ ptr # Null => ptr \in Chain(cur)

(* Between calls, a line is masked exactly when it has no handler.         *)
MaskMatches ==
  pc = "idle" => \A l \in 0..15 \ {2} : l \in imr <=> irq_handlers[l] = Null

(* Both controllers are told the end of every interrupt they delivered,    *)
(* and of no other: no line is in service between dispatches, and the end  *)
(* sent after an int $48, which no controller delivered, finds none.       *)
EoiBalanced ==
  /\ cur = Idle \/ cur = 16 => isrM = {} /\ isrS = {}
  /\ cur \in 0..7 => isrM = {cur} /\ isrS = {}
  /\ cur \in 8..15 => isrM = {2} /\ isrS = {cur}

(* An edge is lost only in the window in which install_irq_handler has     *)
(* unmasked the line and not yet linked the handler (or uninstall has      *)
(* unlinked it and not yet masked the line).                               *)
LostOnlyEarly ==
  \A h \in raised :
    LET l == LineOf[h] IN
    l \notin Level /\ l \notin irr /\ cur # l => h \in early

(* A device whose handler is linked is served, unless its request had been *)
(* taken before (see LostOnlyEarly), the handler is removed or the machine *)
(* halts: no line is left masked, in service or with interrupts off.       *)
Served ==
  \A h \in Handler :
    (h \in raised \ early /\ Linked(h))
      ~> (h \notin raised \/ ~Linked(h) \/ pc = "halted")
=============================================================================
