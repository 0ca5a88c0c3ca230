------------------------------ MODULE IrqProofs -----------------------------
(***************************************************************************)
(* Proofs about Irq for every set of handlers and every number of calls    *)
(* and requests.                                                           *)
(***************************************************************************)
EXTENDS Irq, TLAPS

(* A list as a pointer and a successor function, apart from the state: no  *)
(* member is reached in two ways, and no members lead only to each other.  *)
Single(head, succ) ==
  \A g \in ListFrom(head, succ) : succ[g] # Null =>
    /\ succ[g] # head
    /\ \A h \in ListFrom(head, succ) : succ[h] = succ[g] => h = g

Ends(head, succ) ==
  \A S \in SUBSET ListFrom(head, succ) :
    (\A h \in S : succ[h] \in S) => S = {}

Pointer == Handler \cup {Null}

-----------------------------------------------------------------------------
(* Lemmas on lists *)

(* The members of a list hold its head and their successors, and they are  *)
(* the smallest such set.                                                  *)
LEMMA ListClosed ==
  ASSUME NEW head \in Pointer, NEW succ \in [Handler -> Pointer]
  PROVE  LET R == ListFrom(head, succ) IN
         /\ R \subseteq Handler
         /\ head \in R \cup {Null}
         /\ \A g \in R : succ[g] \in R \cup {Null}
<1> DEFINE R == ListFrom(head, succ)
<1>1. R \subseteq Handler
  BY DEF ListFrom
<1>2. head \in R \cup {Null}
  BY Zenon DEF ListFrom, Pointer
<1>3. ASSUME NEW g \in R PROVE succ[g] \in R \cup {Null}
  <2>1. g \in Handler /\ succ[g] \in Handler \cup {Null}
    BY <1>1 DEF Pointer
  <2>2. ASSUME NEW S \in SUBSET Handler, succ[g] # Null,
               head \in S \cup {Null}, \A k \in S : succ[k] \in S \cup {Null}
        PROVE  succ[g] \in S
    <3>1. g \in S
      BY <2>2, <1>3 DEF ListFrom
    <3> QED
      BY <3>1, <2>2
  <2> QED
    BY <2>1, <2>2 DEF ListFrom
<1> QED
  BY <1>1, <1>2, <1>3

LEMMA ListLeast ==
  ASSUME NEW head, NEW succ, NEW S \in SUBSET Handler,
         head \in S \cup {Null}, \A g \in S : succ[g] \in S \cup {Null}
  PROVE  ListFrom(head, succ) \subseteq S
BY Zenon DEF ListFrom

(* The null pointer leads nowhere.                                         *)
LEMMA ListNull == ASSUME NEW succ PROVE ListFrom(Null, succ) = {}
<1> DEFINE Q == {}
<1>1. Q \in SUBSET Handler /\ Null \in Q \cup {Null} /\ \A g \in Q : succ[g] \in Q \cup {Null}
  OBVIOUS
<1>2. Q = {}
  OBVIOUS
<1> HIDE DEF Q
<1>3. ListFrom(Null, succ) \subseteq Q
  BY <1>1, ListLeast
<1> QED
  BY <1>2, <1>3

(* A list depends only on the successors of its own members.               *)
LEMMA ListAgree ==
  ASSUME NEW head \in Pointer,
         NEW succ \in [Handler -> Pointer], NEW succ2 \in [Handler -> Pointer],
         \A g \in ListFrom(head, succ) : succ2[g] = succ[g]
  PROVE  ListFrom(head, succ2) = ListFrom(head, succ)
<1> DEFINE R == ListFrom(head, succ)
           T == ListFrom(head, succ2)
<1>1. R \subseteq Handler /\ head \in R \cup {Null} /\ \A g \in R : succ[g] \in R \cup {Null}
  BY ListClosed
<1>2. T \subseteq Handler /\ head \in T \cup {Null} /\ \A g \in T : succ2[g] \in T \cup {Null}
  BY ListClosed
<1>3. \A g \in R : succ2[g] \in R \cup {Null}
  BY <1>1
<1>4. T \subseteq R
  <2> HIDE DEF R
  <2> QED BY <1>1, <1>3, ListLeast
<1>5. \A g \in T : succ[g] \in T \cup {Null}
  BY <1>2, <1>4
<1>6. R \subseteq T
  <2> HIDE DEF T
  <2> QED BY <1>2, <1>5, ListLeast
<1> QED
  BY <1>4, <1>6

LEMMA ShapeAgree ==
  ASSUME NEW head \in Pointer,
         NEW succ \in [Handler -> Pointer], NEW succ2 \in [Handler -> Pointer],
         \A g \in ListFrom(head, succ) : succ2[g] = succ[g],
         Single(head, succ), Ends(head, succ)
  PROVE  Single(head, succ2) /\ Ends(head, succ2)
<1> DEFINE R == ListFrom(head, succ)
<1>1. ListFrom(head, succ2) = R
  BY ListAgree
<1>2. \A g \in R : succ2[g] = succ[g]
  OBVIOUS
<1>3. \A g \in R : succ[g] # Null => succ[g] # head /\ \A h \in R : succ[h] = succ[g] => h = g
  BY DEF Single
<1>4. \A S \in SUBSET R : (\A h \in S : succ[h] \in S) => S = {}
  BY DEF Ends
<1> HIDE DEF R
<1>5. Single(head, succ2)
  BY <1>1, <1>2, <1>3 DEF Single
<1>6. Ends(head, succ2)
  <2> SUFFICES ASSUME NEW S \in SUBSET R, \A h \in S : succ2[h] \in S PROVE S = {}
    BY <1>1 DEF Ends
  <2>1. \A h \in S : succ[h] \in S
    BY <1>2
  <2> QED
    BY <2>1, <1>4
<1> QED
  BY <1>5, <1>6

(* install: an object in front of a list that did not hold it.             *)
LEMMA ListPush ==
  ASSUME NEW head \in Pointer, NEW succ \in [Handler -> Pointer], NEW a \in Handler,
         a \notin ListFrom(head, succ), succ[a] = head,
         Single(head, succ), Ends(head, succ), Null \notin Handler
  PROVE  /\ ListFrom(a, succ) = ListFrom(head, succ) \cup {a}
         /\ Single(a, succ)
         /\ Ends(a, succ)
<1> DEFINE R == ListFrom(head, succ)
           T == ListFrom(a, succ)
<1>1. R \subseteq Handler /\ head \in R \cup {Null} /\ \A g \in R : succ[g] \in R \cup {Null}
  BY ListClosed
<1>2. T \subseteq Handler /\ a \in T /\ \A g \in T : succ[g] \in T \cup {Null}
  BY ListClosed DEF Pointer
<1>3. a \notin R
  OBVIOUS
<1>4. Single(head, succ) <=>
        \A g \in R : succ[g] # Null =>
          succ[g] # head /\ \A h \in R : succ[h] = succ[g] => h = g
  BY DEF Single
<1>5. Ends(head, succ) <=> \A S \in SUBSET R : (\A h \in S : succ[h] \in S) => S = {}
  BY DEF Ends
<1>6. Single(a, succ) <=>
        \A g \in T : succ[g] # Null =>
          succ[g] # a /\ \A h \in T : succ[h] = succ[g] => h = g
  BY DEF Single
<1>7. Ends(a, succ) <=> \A S \in SUBSET T : (\A h \in S : succ[h] \in S) => S = {}
  BY DEF Ends
<1>8. ListFrom(head, succ) = R /\ ListFrom(a, succ) = T
  OBVIOUS
<1> HIDE DEF R, T
<1>9. T \subseteq R \cup {a}
  <2> DEFINE Q == R \cup {a}
  <2>1. Q \in SUBSET Handler /\ a \in Q \cup {Null} /\ \A g \in Q : succ[g] \in Q \cup {Null}
    BY <1>1
  <2>2. R \cup {a} = Q
    OBVIOUS
  <2> HIDE DEF Q
  <2> QED
    BY <2>1, <2>2, <1>8, ListLeast
<1>10. R \subseteq T
  BY <1>2, <1>8, ListLeast
<1>11. T = R \cup {a}
  BY <1>2, <1>9, <1>10
<1>12. Single(a, succ)
  BY <1>1, <1>3, <1>4, <1>6, <1>11
<1>13. Ends(a, succ)
  <2> SUFFICES ASSUME NEW S \in SUBSET T, \A h \in S : succ[h] \in S PROVE S = {}
    BY <1>7
  <2> DEFINE Q == S \ {a}
  <2>1. Q \in SUBSET R
    BY <1>11
  <2>2. \A h \in Q : succ[h] \in Q
    BY <2>1, <1>1, <1>3
  <2>3. Q = {}
    BY <2>1, <2>2, <1>5
  <2>4. a \in S => head \in R
    BY <1>1, <1>2
  <2> QED
    BY <2>3, <2>4, <1>3
<1> QED
  BY <1>8, <1>11, <1>12, <1>13

(* uninstall of the first object of a list.                                *)
LEMMA ListPop ==
  ASSUME NEW a \in Handler, NEW succ \in [Handler -> Pointer],
         Single(a, succ), Ends(a, succ), Null \notin Handler
  PROVE  /\ ListFrom(succ[a], succ) = ListFrom(a, succ) \ {a}
         /\ Single(succ[a], succ)
         /\ Ends(succ[a], succ)
<1> DEFINE R == ListFrom(a, succ)
           T == ListFrom(succ[a], succ)
<1>1. R \subseteq Handler /\ a \in R /\ \A g \in R : succ[g] \in R \cup {Null}
  BY ListClosed DEF Pointer
<1>2. T \subseteq Handler /\ succ[a] \in T \cup {Null} /\ \A g \in T : succ[g] \in T \cup {Null}
  <2>1. succ[a] \in Pointer
    OBVIOUS
  <2> QED
    BY <2>1, ListClosed
<1>4. Single(a, succ) <=>
        \A g \in R : succ[g] # Null =>
          succ[g] # a /\ \A h \in R : succ[h] = succ[g] => h = g
  BY DEF Single
<1>5. Ends(a, succ) <=> \A S \in SUBSET R : (\A h \in S : succ[h] \in S) => S = {}
  BY DEF Ends
<1>6. Single(succ[a], succ) <=>
        \A g \in T : succ[g] # Null =>
          succ[g] # succ[a] /\ \A h \in T : succ[h] = succ[g] => h = g
  BY DEF Single
<1>7. Ends(succ[a], succ) <=> \A S \in SUBSET T : (\A h \in S : succ[h] \in S) => S = {}
  BY DEF Ends
<1>8. ListFrom(a, succ) = R /\ ListFrom(succ[a], succ) = T
  OBVIOUS
<1> HIDE DEF R, T
<1>9. T \subseteq R \ {a}
  <2> DEFINE Q == R \ {a}
  <2>1. Q \in SUBSET Handler /\ succ[a] \in Q \cup {Null} /\ \A g \in Q : succ[g] \in Q \cup {Null}
    BY <1>1, <1>4
  <2>2. R \ {a} = Q
    OBVIOUS
  <2> HIDE DEF Q
  <2> QED
    BY <2>1, <2>2, <1>8, ListLeast
<1>10. R \subseteq T \cup {a}
  <2> DEFINE Q == T \cup {a}
  <2>1. Q \in SUBSET Handler /\ a \in Q \cup {Null} /\ \A g \in Q : succ[g] \in Q \cup {Null}
    BY <1>2
  <2>2. T \cup {a} = Q
    OBVIOUS
  <2> HIDE DEF Q
  <2> QED
    BY <2>1, <2>2, <1>8, ListLeast
<1>11. T = R \ {a}
  BY <1>9, <1>10
<1>12. Single(succ[a], succ)
  BY <1>1, <1>4, <1>6, <1>11
<1>13. Ends(succ[a], succ)
  BY <1>5, <1>7, <1>11
<1> QED
  BY <1>8, <1>11, <1>12, <1>13

(* uninstall of another object of a list: its predecessor passes over it.  *)
LEMMA ListRemove ==
  ASSUME NEW head \in Handler, NEW succ \in [Handler -> Pointer],
         NEW a \in ListFrom(head, succ), a # head,
         NEW succ2 \in [Handler -> Pointer],
         succ2 = [h \in Handler |->
                    IF h \in ListFrom(head, succ) /\ succ[h] = a THEN succ[a] ELSE succ[h]],
         Single(head, succ), Ends(head, succ), Null \notin Handler
  PROVE  /\ ListFrom(head, succ2) = ListFrom(head, succ) \ {a}
         /\ Single(head, succ2)
         /\ Ends(head, succ2)
<1> DEFINE R == ListFrom(head, succ)
           T == ListFrom(head, succ2)
<1>1. R \subseteq Handler /\ head \in R /\ \A g \in R : succ[g] \in R \cup {Null}
  BY ListClosed DEF Pointer
<1>2. T \subseteq Handler /\ head \in T /\ \A g \in T : succ2[g] \in T \cup {Null}
  BY ListClosed DEF Pointer
<1>3. a \in R /\ \A h \in Handler : succ2[h] = IF h \in R /\ succ[h] = a THEN succ[a] ELSE succ[h]
  OBVIOUS
<1>4. \A g \in R : succ[g] # Null =>
          succ[g] # head /\ \A h \in R : succ[h] = succ[g] => h = g
  BY DEF Single
<1>5. \A S \in SUBSET R : (\A h \in S : succ[h] \in S) => S = {}
  BY DEF Ends
<1>6. Single(head, succ2) <=>
        \A g \in T : succ2[g] # Null =>
          succ2[g] # head /\ \A h \in T : succ2[h] = succ2[g] => h = g
  BY DEF Single
<1>7. Ends(head, succ2) <=> \A S \in SUBSET T : (\A h \in S : succ2[h] \in S) => S = {}
  BY DEF Ends
<1>8. ListFrom(head, succ) = R /\ ListFrom(head, succ2) = T
  OBVIOUS
<1> HIDE DEF R, T
<1>9. succ[a] # a
  <2> SUFFICES ASSUME succ[a] = a PROVE FALSE
    OBVIOUS
  <2> DEFINE Q == {a}
  <2>1. Q \in SUBSET R /\ Q # {} /\ \A h \in Q : succ[h] \in Q
    BY <1>3
  <2> HIDE DEF Q
  <2> QED
    BY <2>1, <1>5
<1>10. T \subseteq R \ {a}
  <2> DEFINE Q == R \ {a}
  <2>1. Q \in SUBSET Handler /\ head \in Q \cup {Null} /\ \A g \in Q : succ2[g] \in Q \cup {Null}
    BY <1>1, <1>3, <1>9
  <2>2. R \ {a} = Q
    OBVIOUS
  <2> HIDE DEF Q
  <2>3. ListFrom(head, succ2) \subseteq Q
    BY ONLY <2>1, ListLeast
  <2> QED
    BY <2>2, <2>3, <1>8
<1>11. PICK q \in T : succ[q] = a
  <2> SUFFICES ASSUME \A q \in T : succ[q] # a PROVE FALSE
    OBVIOUS
  <2>1. \A g \in T : succ[g] \in T \cup {Null}
    BY <1>2, <1>3
  <2>2. R \subseteq T
    BY <2>1, <1>2, <1>8, ListLeast
  <2> QED
    BY <2>2, <1>3, <1>10
<1>12. R \subseteq T \cup {a}
  <2>1. succ[a] \in T \cup {Null}
    BY <1>2, <1>3, <1>10, <1>11
  <2> DEFINE Q == T \cup {a}
  <2>2. Q \in SUBSET Handler /\ head \in Q \cup {Null} /\ \A g \in Q : succ[g] \in Q \cup {Null}
    BY <2>1, <1>1, <1>2, <1>3, <1>10
  <2>3. T \cup {a} = Q
    OBVIOUS
  <2> HIDE DEF Q
  <2> QED
    BY <2>2, <2>3, <1>8, ListLeast
<1>13. T = R \ {a}
  BY <1>10, <1>12
<1>14. Single(head, succ2)
  <2> SUFFICES ASSUME NEW g \in T, succ2[g] # Null
               PROVE  succ2[g] # head /\ \A h \in T : succ2[h] = succ2[g] => h = g
    BY <1>6
  <2>1. g \in R /\ g # a /\ g \in Handler
    BY <1>1, <1>13
  <2>2. succ2[g] # head
    BY <2>1, <1>3, <1>4
  <2>3. ASSUME NEW h \in T, succ2[h] = succ2[g] PROVE h = g
    <3>1. h \in R /\ h # a /\ h \in Handler
      BY <1>1, <1>13
    <3>2. succ2[g] = (IF succ[g] = a THEN succ[a] ELSE succ[g])
          /\ succ2[h] = (IF succ[h] = a THEN succ[a] ELSE succ[h])
      BY <1>3, <2>1, <3>1
    <3>3. a # Null
      BY <1>1, <1>3
    <3> QED
      BY <2>1, <2>3, <3>1, <3>2, <3>3, <1>3, <1>4
  <2> QED
    BY <2>2, <2>3
<1>15. Ends(head, succ2)
  <2> SUFFICES ASSUME NEW S \in SUBSET T, \A h \in S : succ2[h] \in S PROVE S = {}
    BY <1>7
  <2>1. CASE \E h \in S : succ[h] = a
    <3>1. succ[a] \in S
      BY <2>1, <1>1, <1>3, <1>13
    <3> DEFINE Q == S \cup {a}
    <3>2. Q \in SUBSET R /\ \A h \in Q : succ[h] \in Q
      BY <3>1, <1>1, <1>3, <1>13
    <3>3. Q = {}
      BY <3>2, <1>5
    <3> QED
      BY <3>3
  <2>2. CASE \A h \in S : succ[h] # a
    <3>1. S \in SUBSET R /\ \A h \in S : succ[h] \in S
      BY <2>2, <1>1, <1>3, <1>13
    <3> QED
      BY <3>1, <1>5
  <2> QED
    BY <2>1, <2>2
<1> QED
  BY <1>8, <1>13, <1>14, <1>15

-----------------------------------------------------------------------------
(* The inductive invariant *)

ListInv ==
  \A l \in Lines :
    /\ Chain(l) \subseteq Devices(l)
    /\ Single(irq_handlers[l], next)
    /\ Ends(irq_handlers[l], next)

(* What install and uninstall know of their argument at each place. *)
CallInv ==
  /\ pc \notin {"idle", "halted"} => arg \in Handler
  /\ pc \in {"unmask", "cli", "next", "head"} => ~Linked(arg)
  /\ pc = "head" => next[arg] = irq_handlers[line]
  /\ pc = "sti" => irq_handlers[line] # Null
  /\ pc \in {"ucli", "unlink"} => Linked(arg)

(* Interrupts are off while a list is changed and while one is walked. *)
Critical == {"next", "head", "sti", "unlink", "usti"}

FlagInv ==
  /\ pc \in Critical => ~iflag /\ cur = Idle
  /\ iflag => cur = Idle
  /\ cur # Idle /\ ptr # Null => ptr \in Chain(cur)
  /\ cur # 17

(* A line is open ahead of its handler in install, and behind it in        *)
(* uninstall.                                                              *)
Open(l) == pc \in {"cli", "next", "head", "usti", "mask"} /\ l = line

MaskInv ==
  pc # "halted" =>
    \A l \in 0..15 \ {2} :
      IF Open(l) THEN l \notin imr ELSE l \in imr <=> irq_handlers[l] = Null

(* A request on an edge-triggered line that is neither latched nor early   *)
(* is the one the dispatcher is about to serve.                            *)
LostInv ==
  \A h \in raised :
    LET l == LineOf[h] IN
    /\ l < 16
    /\ l \notin Level /\ l \notin irr => h \in early \/ (cur = l /\ ptr = h)

IInv == TypeOK /\ ListInv /\ CallInv /\ FlagInv /\ MaskInv /\ EoiBalanced /\ LostInv

-----------------------------------------------------------------------------

LEMMA TypeInit == Init => TypeOK
BY LineAssumption, BoundAssumption DEF Init, TypeOK, Lines, Idle

(* Every variable keeps its type; a call has an argument.                  *)
LEMMA TypeNext == ASSUME TypeOK, CallInv, [Next]_vars PROVE TypeOK'
<1> USE LineAssumption, BoundAssumption DEF lists, pic, device, main
<1>1. CASE UNCHANGED vars
  BY <1>1 DEF TypeOK, vars
<1>2. ASSUME pc \notin {"idle", "halted"} PROVE arg \in Handler /\ line \in Lines
  BY <1>2 DEF CallInv, line, Lines
<1>3. CASE Unmask
  <2>1. iflag' \in BOOLEAN
    BY <1>3, Zenon DEF Unmask, TypeOK
  <2> QED
    BY <1>2, <1>3, <2>1 DEF Unmask, Goto, TypeOK
<1>4. CASE LinkNext
  BY <1>2, <1>4 DEF LinkNext, Goto, TypeOK
<1>5. CASE LinkHead
  BY <1>2, <1>5 DEF LinkHead, Goto, TypeOK
<1>6. ASSUME NEW from, NEW to, Cli(from, to) \/ Sti(from, to),
             to \in {"next", "unlink", "idle", "mask"}
      PROVE  TypeOK'
  <2>1. iflag' \in BOOLEAN
    BY <1>6, Zenon DEF Cli, Sti
  <2> QED
    BY <1>6, <2>1 DEF Cli, Sti, Goto, TypeOK
<1>7. CASE Unlink
  BY <1>2, <1>7 DEF Unlink, Goto, TypeOK
<1>8. CASE Mask
  <2>1. iflag' \in BOOLEAN
    BY <1>8, Zenon DEF Mask, TypeOK
  <2> QED
    BY <1>2, <1>8, <2>1 DEF Mask, Goto, TypeOK
<1>9. CASE CallHandler
  BY <1>9 DEF CallHandler, TypeOK
<1>10. CASE EndDispatch
  BY <1>10 DEF EndDispatch, Eoi, EndOf, TypeOK
<1>11. ASSUME NEW l \in 0..15, Accept(l) PROVE TypeOK'
  <2>1. iflag' \in BOOLEAN
    BY <1>11, Zenon DEF Accept
  <2>2. isrM' \subseteq 0..7 /\ isrS' \subseteq 8..15
    BY <1>11 DEF Accept, OnMaster, TypeOK
  <2>3. cur' \in Lines \cup {Idle} /\ ptr' \in Handler \cup {Null}
    BY <1>11 DEF Accept, TypeOK, Lines
  <2> QED
    BY <1>11, <2>1, <2>2, <2>3 DEF Accept, TypeOK
<1>12. CASE Syscall
  <2>1. iflag' \in BOOLEAN
    BY <1>12, Zenon DEF Syscall
  <2>2. cur' \in Lines \cup {Idle} /\ ptr' \in Handler \cup {Null} /\ calls' \in 0..MaxCalls
    BY <1>12 DEF Syscall, TypeOK, Lines
  <2> QED
    BY <1>12, <2>1, <2>2 DEF Syscall, TypeOK
<1>13. CASE Exception
  BY <1>13 DEF Exception, TypeOK
<1>14. ASSUME NEW h \in Handler, Raise(h) PROVE TypeOK'
  <2>1. raises' \in 0..MaxRaises /\ LineOf[h] \in 0..15
    BY <1>14 DEF Raise, TypeOK
  <2> QED
    BY <1>14, <2>1 DEF Raise, TypeOK
<1>15. ASSUME NEW h \in Handler, CallInstall(h) \/ CallUninstall(h) PROVE TypeOK'
  <2>1. calls' \in 0..MaxCalls
    BY <1>15 DEF CallInstall, CallUninstall, TypeOK
  <2> QED
    BY <1>15, <2>1 DEF CallInstall, CallUninstall, Goto, TypeOK
<1> QED
  BY <1>1, <1>3, <1>4, <1>5, <1>6, <1>7, <1>8, <1>9, <1>10, <1>11, <1>12, <1>13, <1>14, <1>15
  DEF Next, Install, Uninstall, Dispatch

-----------------------------------------------------------------------------
(* What each step does to the lists *)

(* No step but these three touches a list.                                 *)
LEMMA ListSteps ==
  ASSUME [Next]_vars
  PROVE  UNCHANGED lists \/ LinkNext \/ LinkHead \/ Unlink
BY DEF Next, vars, lists, Install, Uninstall, Dispatch, Unmask, Cli, Sti, Mask,
       CallHandler, EndDispatch, Accept, Syscall, Exception, Raise, CallInstall, CallUninstall

LEMMA ListsUnchanged ==
  ASSUME UNCHANGED lists
  PROVE  \A l \in Lines : /\ Chain(l)' = Chain(l)
                          /\ Single(irq_handlers[l], next)' = Single(irq_handlers[l], next)
                          /\ Ends(irq_handlers[l], next)' = Ends(irq_handlers[l], next)
BY DEF lists, Chain

LEMMA TypePointers ==
  ASSUME TypeOK
  PROVE  next \in [Handler -> Pointer] /\ \A l \in Lines : irq_handlers[l] \in Pointer
BY DEF TypeOK, Pointer

(* The object a call is about is on no list of another line.               *)
LEMMA Elsewhere ==
  ASSUME TypeOK, ListInv, arg \in Handler
  PROVE  line \in Lines /\ \A l \in Lines : l # line => arg \notin Chain(l)
BY LineAssumption DEF ListInv, Devices, line, Lines

(* install writes the next field of an object that is on no list.          *)
LEMMA AfterLinkNext ==
  ASSUME TypeOK, TypeOK', ListInv, CallInv, LinkNext
  PROVE  \A l \in Lines : /\ Chain(l)' = Chain(l)
                          /\ Single(irq_handlers[l], next)'
                          /\ Ends(irq_handlers[l], next)'
<1>1. /\ arg \in Handler /\ arg \notin Chain(line) /\ irq_handlers' = irq_handlers
      /\ next' = [next EXCEPT ![arg] = irq_handlers[line]]
  BY DEF LinkNext, Goto, CallInv, Linked, line
<1>2. next \in [Handler -> Pointer] /\ next' \in [Handler -> Pointer]
  BY DEF TypeOK, Pointer
<1> SUFFICES ASSUME NEW l \in Lines
             PROVE  /\ Chain(l)' = Chain(l)
                    /\ Single(irq_handlers[l], next)'
                    /\ Ends(irq_handlers[l], next)'
  OBVIOUS
<1>3. irq_handlers[l] \in Pointer /\ Single(irq_handlers[l], next) /\ Ends(irq_handlers[l], next)
  BY TypePointers DEF ListInv
<1>4. arg \notin ListFrom(irq_handlers[l], next)
  BY <1>1, Elsewhere DEF Chain
<1>5. ListFrom(irq_handlers[l], next) \subseteq Handler
  BY DEF ListFrom
<1>6. \A g \in ListFrom(irq_handlers[l], next) : next'[g] = next[g]
  BY <1>1, <1>4, <1>5 DEF TypeOK
<1>7. ListFrom(irq_handlers[l], next') = ListFrom(irq_handlers[l], next)
  BY <1>2, <1>3, <1>6, ListAgree
<1>8. Single(irq_handlers[l], next') /\ Ends(irq_handlers[l], next')
  BY <1>2, <1>3, <1>6, ShapeAgree
<1> QED
  BY <1>1, <1>7, <1>8 DEF Chain

(* install puts the object in front of the list of its line.               *)
LEMMA AfterLinkHead ==
  ASSUME TypeOK, ListInv, CallInv, LinkHead
  PROVE  \A l \in Lines : /\ Chain(l)' = IF l = line THEN Chain(l) \cup {arg} ELSE Chain(l)
                          /\ Single(irq_handlers[l], next)'
                          /\ Ends(irq_handlers[l], next)'
<1>1. /\ arg \in Handler /\ arg \notin Chain(line) /\ next' = next
      /\ irq_handlers' = [irq_handlers EXCEPT ![line] = arg]
      /\ next[arg] = irq_handlers[line]
  BY DEF LinkHead, Goto, CallInv, Linked, line
<1> SUFFICES ASSUME NEW l \in Lines
             PROVE  /\ Chain(l)' = IF l = line THEN Chain(l) \cup {arg} ELSE Chain(l)
                    /\ Single(irq_handlers[l], next)'
                    /\ Ends(irq_handlers[l], next)'
  OBVIOUS
<1>2. /\ next \in [Handler -> Pointer] /\ irq_handlers[l] \in Pointer
      /\ Single(irq_handlers[l], next) /\ Ends(irq_handlers[l], next)
  BY TypePointers DEF ListInv
<1>3. CASE l = line
  <2>1. irq_handlers'[l] = arg
    BY <1>1, <1>3 DEF TypeOK
  <2>2. arg \notin ListFrom(irq_handlers[l], next)
    BY <1>1, <1>3 DEF Chain
  <2>3. /\ ListFrom(arg, next) = ListFrom(irq_handlers[l], next) \cup {arg}
        /\ Single(arg, next) /\ Ends(arg, next)
    BY <1>1, <1>2, <1>3, <2>2, ListPush, LineAssumption
  <2> QED
    BY <1>1, <1>3, <2>1, <2>3 DEF Chain
<1>4. CASE l # line
  <2>1. irq_handlers'[l] = irq_handlers[l]
    BY <1>1, <1>4 DEF TypeOK
  <2> QED
    BY <1>1, <1>2, <1>4, <2>1 DEF Chain
<1> QED
  BY <1>3, <1>4

(* uninstall takes the object off the list of its line, wherever it is.    *)
LEMMA AfterUnlink ==
  ASSUME TypeOK, TypeOK', ListInv, CallInv, Unlink
  PROVE  \A l \in Lines : /\ Chain(l)' = IF l = line THEN Chain(l) \ {arg} ELSE Chain(l)
                          /\ Single(irq_handlers[l], next)'
                          /\ Ends(irq_handlers[l], next)'
<1>1. arg \in Handler /\ arg \in Chain(line) /\ line \in Lines
  BY Elsewhere DEF Unlink, Goto, CallInv, Linked, line
<1> SUFFICES ASSUME NEW l \in Lines
             PROVE  /\ Chain(l)' = IF l = line THEN Chain(l) \ {arg} ELSE Chain(l)
                    /\ Single(irq_handlers[l], next)'
                    /\ Ends(irq_handlers[l], next)'
  OBVIOUS
<1>2. /\ next \in [Handler -> Pointer] /\ next' \in [Handler -> Pointer]
      /\ irq_handlers[l] \in Pointer
      /\ Single(irq_handlers[l], next) /\ Ends(irq_handlers[l], next)
  BY DEF ListInv, TypeOK, Pointer
<1>3. CASE irq_handlers[line] = arg
  <2>1. irq_handlers' = [irq_handlers EXCEPT ![line] = next[arg]] /\ next' = next
    BY <1>3 DEF Unlink
  <2>2. CASE l = line
    <3>1. irq_handlers'[l] = next[arg]
      BY <2>1, <2>2, <1>1 DEF TypeOK
    <3>2. /\ ListFrom(next[arg], next) = ListFrom(arg, next) \ {arg}
          /\ Single(next[arg], next) /\ Ends(next[arg], next)
      BY <1>1, <1>2, <1>3, <2>2, ListPop, LineAssumption
    <3> QED
      BY <2>1, <2>2, <3>1, <3>2, <1>3 DEF Chain
  <2>3. CASE l # line
    <3>1. irq_handlers'[l] = irq_handlers[l]
      BY <2>1, <2>3 DEF TypeOK
    <3> QED
      BY <2>1, <2>3, <3>1, <1>2 DEF Chain
  <2> QED
    BY <2>2, <2>3
<1>4. CASE irq_handlers[line] # arg
  <2>1. /\ irq_handlers' = irq_handlers
        /\ next' = [h \in Handler |->
                      IF h \in Chain(line) /\ next[h] = arg THEN next[arg] ELSE next[h]]
    BY <1>4 DEF Unlink
  <2>2. CASE l = line
    <3>1. irq_handlers[l] \in Handler
      BY ListNull, <1>1, <1>2, <2>2 DEF Chain, Pointer
    <3>2. arg \in ListFrom(irq_handlers[l], next) /\ arg # irq_handlers[l]
      BY <1>1, <1>4, <2>2 DEF Chain
    <3>3. next' = [h \in Handler |->
                     IF h \in ListFrom(irq_handlers[l], next) /\ next[h] = arg
                       THEN next[arg] ELSE next[h]]
      BY <2>1, <2>2 DEF Chain
    <3>4. /\ ListFrom(irq_handlers[l], next') = ListFrom(irq_handlers[l], next) \ {arg}
          /\ Single(irq_handlers[l], next') /\ Ends(irq_handlers[l], next')
      BY <3>1, <3>2, <3>3, <1>2, ListRemove, LineAssumption
    <3> QED
      BY <3>4, <2>1, <2>2 DEF Chain
  <2>3. CASE l # line
    <3>1. ListFrom(irq_handlers[l], next) \subseteq Handler
      BY DEF ListFrom
    <3>2. ListFrom(irq_handlers[l], next) \cap Chain(line) = {}
      BY <2>3, <1>1 DEF ListInv, Chain, Devices
    <3>3. \A g \in ListFrom(irq_handlers[l], next) : next'[g] = next[g]
      BY <2>1, <3>1, <3>2
    <3>4. ListFrom(irq_handlers[l], next') = ListFrom(irq_handlers[l], next)
      BY <1>2, <3>3, ListAgree
    <3>5. Single(irq_handlers[l], next') /\ Ends(irq_handlers[l], next')
      BY <1>2, <3>3, ShapeAgree
    <3> QED
      BY <2>1, <2>3, <3>4, <3>5 DEF Chain
  <2> QED
    BY <2>2, <2>3
<1> QED
  BY <1>3, <1>4

-----------------------------------------------------------------------------
(* Each part of the invariant is preserved *)

LEMMA ListInvInit == Init => ListInv
<1> SUFFICES ASSUME Init, NEW l \in Lines
             PROVE  /\ Chain(l) \subseteq Devices(l)
                    /\ Single(irq_handlers[l], next) /\ Ends(irq_handlers[l], next)
  BY DEF ListInv
<1>1. irq_handlers[l] = Null
  BY DEF Init
<1>2. ListFrom(Null, next) = {}
  BY ListNull
<1> QED
  BY <1>1, <1>2 DEF Chain, Single, Ends

LEMMA ListInvNext ==
  ASSUME TypeOK, TypeOK', ListInv, CallInv, [Next]_vars
  PROVE  ListInv'
<1> SUFFICES ASSUME NEW l \in Lines
             PROVE  /\ Chain(l)' \subseteq Devices(l)
                    /\ Single(irq_handlers[l], next)' /\ Ends(irq_handlers[l], next)'
  BY DEF ListInv, Devices, Lines
<1>1. Chain(l) \subseteq Devices(l) /\ Single(irq_handlers[l], next) /\ Ends(irq_handlers[l], next)
  BY DEF ListInv
<1>2. CASE UNCHANGED lists
  BY <1>1, <1>2, ListsUnchanged
<1>3. CASE LinkNext
  BY <1>1, <1>3, AfterLinkNext
<1>4. CASE LinkHead
  <2>1. arg \in Handler
    BY <1>4 DEF LinkHead, Goto, CallInv
  <2>2. l = line => arg \in Devices(l)
    BY <2>1 DEF Devices, line
  <2> QED
    BY <1>1, <1>4, <2>2, AfterLinkHead
<1>5. CASE Unlink
  BY <1>1, <1>5, AfterUnlink
<1> QED
  BY <1>2, <1>3, <1>4, <1>5, ListSteps

(* A list that has a member has a first one, on it.                        *)
LEMMA HeadOnList ==
  ASSUME TypeOK, NEW l \in Lines
  PROVE  /\ irq_handlers[l] # Null => irq_handlers[l] \in Chain(l)
         /\ Chain(l) # {} => irq_handlers[l] # Null
<1>1. next \in [Handler -> Pointer] /\ irq_handlers[l] \in Pointer
  BY TypePointers
<1>2. irq_handlers[l] \in Chain(l) \cup {Null}
  BY <1>1, ListClosed DEF Chain
<1>3. irq_handlers[l] = Null => Chain(l) = {}
  BY ListNull DEF Chain
<1> QED
  BY <1>2, <1>3

LEMMA LinkedSame ==
  ASSUME UNCHANGED lists PROVE \A h : Linked(h)' = Linked(h)
BY DEF Linked, Chain, lists

LEMMA CallInvNext ==
  ASSUME TypeOK, TypeOK', ListInv, CallInv, [Next]_vars
  PROVE  CallInv'
<1>1. CASE UNCHANGED lists /\ ~(LinkNext \/ LinkHead \/ Unlink)
  <2>1. \A h : Linked(h)' = Linked(h)
    BY <1>1, LinkedSame
  <2>2. irq_handlers' = irq_handlers /\ next' = next
    BY <1>1 DEF lists
  <2>3. arg' = arg => line' = line
    BY DEF line
  <2>4. \/ UNCHANGED <<pc, arg>> \/ pc' \in {"idle", "halted"}
        \/ arg' = arg /\ <<pc, pc'>> \in {<<"unmask", "cli">>, <<"cli", "next">>,
                                         <<"ucli", "unlink">>, <<"usti", "mask">>}
        \/ pc' = "unmask" /\ arg' \in Handler /\ ~Linked(arg')
        \/ pc' = "ucli" /\ arg' \in Handler /\ Linked(arg')
    BY <1>1 DEF Next, vars, main, device, Install, Uninstall, Dispatch, Unmask, Cli, Sti, Mask, Goto,
           CallHandler, EndDispatch, Accept, Syscall, Exception, Raise, CallInstall, CallUninstall
  <2> QED
    BY <2>1, <2>2, <2>3, <2>4 DEF CallInv
<1>2. CASE LinkNext
  <2>1. pc' = "head" /\ arg' = arg /\ pc = "next" /\ irq_handlers' = irq_handlers
    BY <1>2 DEF LinkNext, Goto
  <2>2. arg \in Handler /\ line \in Lines /\ arg \notin Chain(line)
    BY <2>1, LineAssumption DEF CallInv, Linked, line, Lines
  <2>3. \A l \in Lines : Chain(l)' = Chain(l)
    BY <1>2, AfterLinkNext
  <2>4. next'[arg] = irq_handlers[line] /\ line' = line
    BY <1>2, <2>1, <2>2 DEF LinkNext, TypeOK, line
  <2>5. ~Linked(arg)'
    BY <2>1, <2>2, <2>3 DEF Linked, line, Chain
  <2> QED
    BY <2>1, <2>2, <2>4, <2>5 DEF CallInv
<1>3. CASE LinkHead
  <2>1. pc' = "sti" /\ arg' = arg /\ arg \in Handler /\ line \in Lines /\ line' = line
    BY <1>3, LineAssumption DEF LinkHead, Goto, CallInv, line, Lines
  <2>2. irq_handlers'[line] = arg
    BY <1>3, <2>1 DEF LinkHead, TypeOK
  <2> QED
    BY <2>1, <2>2, LineAssumption DEF CallInv
<1>4. CASE Unlink
  BY <1>4 DEF Unlink, Goto, CallInv
<1> QED
  BY <1>1, <1>2, <1>3, <1>4, ListSteps

LEMMA FlagInvNext ==
  ASSUME TypeOK, TypeOK', CallInv, FlagInv, [Next]_vars
  PROVE  FlagInv'
<1> USE DEF lists, pic, device, main
<1>1. ASSUME UNCHANGED lists PROVE \A l \in Lines : Chain(l)' = Chain(l)
  BY <1>1, ListsUnchanged
<1>2. cur \in Lines \cup {Idle}
  BY DEF TypeOK
<1>3. CASE UNCHANGED vars
  BY <1>1, <1>2, <1>3 DEF FlagInv, vars
<1>4. CASE Unmask
  BY <1>4 DEF Unmask, Goto, Running, FlagInv, Critical
<1>5. ASSUME NEW from, NEW to, Cli(from, to) PROVE FlagInv'
  BY <1>5, Zenon DEF Cli, Goto, Running, FlagInv, Idle
<1>6. ASSUME NEW from, NEW to, Sti(from, to), to \in {"idle", "mask"} PROVE FlagInv'
  BY <1>6 DEF Sti, Goto, Running, FlagInv, Critical
<1>7. CASE LinkNext \/ LinkHead \/ Unlink
  BY <1>7 DEF LinkNext, LinkHead, Unlink, Goto, Running, FlagInv, Critical
<1>8. CASE Mask
  BY <1>8 DEF Mask, Goto, Running, FlagInv, Critical
<1>9. CASE CallHandler
  <2>1. cur \in Lines /\ ptr \in Chain(cur)
    BY <1>2, <1>9 DEF CallHandler, FlagInv
  <2>2. next[ptr] \in Chain(cur) \cup {Null}
    <3>1. next \in [Handler -> Pointer] /\ irq_handlers[cur] \in Pointer
      BY <2>1, TypePointers
    <3>2. \A g \in Chain(cur) : next[g] \in Chain(cur) \cup {Null}
      BY <3>1, ListClosed DEF Chain
    <3> QED
      BY <2>1, <3>2
  <2> QED
    BY <1>1, <1>9, <2>1, <2>2 DEF CallHandler, FlagInv
<1>10. CASE EndDispatch
  <2>1. cur' = Idle /\ Idle # 17
    BY <1>10 DEF EndDispatch, Idle
  <2>2. pc' \notin Critical
    BY <1>10, Zenon DEF EndDispatch, FlagInv
  <2> QED
    BY <2>1, <2>2 DEF FlagInv
<1>11. ASSUME NEW l \in 0..15, Accept(l) PROVE FlagInv'
  <2>1. l \in Lines /\ ptr' = irq_handlers[l] /\ cur' = l /\ ~iflag' /\ UNCHANGED <<lists, pc>>
    BY <1>11 DEF Accept, Lines
  <2>2. ptr' # Null => ptr' \in Chain(l)
    BY <2>1, HeadOnList
  <2>3. pc \notin Critical
    BY <1>11 DEF Accept, FlagInv
  <2> QED
    BY <1>1, <2>1, <2>2, <2>3 DEF FlagInv
<1>12. CASE Syscall
  <2>1. 16 \in Lines /\ ptr' = irq_handlers[16] /\ cur' = 16 /\ ~iflag' /\ UNCHANGED <<lists, pc>>
    BY <1>12 DEF Syscall, Lines
  <2>2. ptr' # Null => ptr' \in Chain(16)
    BY <2>1, HeadOnList
  <2>3. pc \notin Critical
    BY <1>12 DEF Syscall, Critical
  <2> QED
    BY <1>1, <2>1, <2>2, <2>3 DEF FlagInv
<1>13. CASE Exception
  BY <1>1, <1>2, <1>13 DEF Exception, FlagInv, Critical
<1>14. ASSUME NEW h \in Handler, Raise(h) \/ CallInstall(h) \/ CallUninstall(h) PROVE FlagInv'
  BY <1>1, <1>2, <1>14 DEF Raise, CallInstall, CallUninstall, Goto, Running, FlagInv, Critical
<1> QED
  BY <1>3, <1>4, <1>5, <1>6, <1>7, <1>8, <1>9, <1>10, <1>11, <1>12, <1>13, <1>14
  DEF Next, Install, Uninstall, Dispatch

LEMMA MaskInvNext ==
  ASSUME TypeOK, ListInv, CallInv, MaskInv, [Next]_vars
  PROVE  MaskInv'
<1> USE DEF lists, pic, device, main
<1> SUFFICES ASSUME pc' # "halted", NEW l \in 0..15 \ {2}
             PROVE  IF Open(l)' THEN l \notin imr' ELSE l \in imr' <=> irq_handlers'[l] = Null
  BY DEF MaskInv, Open, line
<1>1. pc # "halted" => IF Open(l) THEN l \notin imr ELSE l \in imr <=> irq_handlers[l] = Null
  BY DEF MaskInv
<1>2. l \in Lines
  BY DEF Lines
<1>3. ASSUME UNCHANGED <<irq_handlers, imr, pc, arg>>
      PROVE  IF Open(l)' THEN l \notin imr' ELSE l \in imr' <=> irq_handlers'[l] = Null
  BY <1>1, <1>3 DEF Open, line
<1>4. CASE Unmask
  <2>1. pc = "unmask" /\ pc' = "cli" /\ ~Open(l) /\ (Open(l)' <=> l = line)
    BY <1>4 DEF Unmask, Goto, Open, line
  <2>2. irq_handlers' = irq_handlers
    BY <1>4 DEF Unmask
  <2>3. l \in imr' <=> l \in imr /\ ~(l = line /\ irq_handlers[line] = Null)
    BY <1>4 DEF Unmask
  <2> QED
    BY <1>1, <2>1, <2>2, <2>3
<1>5. CASE Cli("cli", "next") \/ Cli("ucli", "unlink")
  BY <1>1, <1>5 DEF Cli, Goto, Open, line
<1>6. CASE Sti("sti", "idle") \/ Sti("usti", "mask")
  BY <1>1, <1>6 DEF Sti, Goto, Open, line
<1>7. CASE LinkNext
  BY <1>1, <1>7 DEF LinkNext, Goto, Open, line
<1>8. CASE LinkHead
  <2>1. arg \in Handler /\ arg # Null
    BY <1>8, LineAssumption DEF LinkHead, Goto, CallInv
  <2>2. irq_handlers'[l] = IF l = line THEN arg ELSE irq_handlers[l]
    BY <1>2, <1>8 DEF LinkHead, TypeOK
  <2> QED
    BY <1>1, <1>8, <2>1, <2>2 DEF LinkHead, Goto, Open, line
<1>9. CASE Unlink
  <2>1. arg \in Handler /\ line \in Lines /\ Chain(line) # {}
    BY <1>9, Elsewhere DEF Unlink, Goto, CallInv, Linked, line
  <2>2. irq_handlers[line] # Null
    BY <2>1, HeadOnList
  <2>3. l # line => irq_handlers'[l] = irq_handlers[l]
    BY <1>2, <1>9 DEF Unlink, TypeOK
  <2> QED
    BY <1>1, <1>9, <2>2, <2>3 DEF Unlink, Goto, Open, line
<1>10. CASE Mask
  BY <1>1, <1>10 DEF Mask, Goto, Open, line
<1>11. ASSUME NEW h \in Handler, CallInstall(h) \/ CallUninstall(h)
       PROVE  IF Open(l)' THEN l \notin imr' ELSE l \in imr' <=> irq_handlers'[l] = Null
  BY <1>1, <1>11 DEF CallInstall, CallUninstall, Goto, Open
<1>12. CASE Dispatch \/ Syscall
  <2>1. UNCHANGED <<irq_handlers, imr, pc, arg>>
    BY <1>12 DEF Dispatch, CallHandler, EndDispatch, Accept, Syscall
  <2> QED
    BY <2>1, <1>3
<1>13. CASE Exception
  BY <1>13 DEF Exception
<1>14. ASSUME NEW h \in Handler, Raise(h)
       PROVE  IF Open(l)' THEN l \notin imr' ELSE l \in imr' <=> irq_handlers'[l] = Null
  BY <1>3, <1>14 DEF Raise
<1>15. CASE UNCHANGED vars
  BY <1>3, <1>15 DEF vars
<1> QED
  BY <1>4, <1>5, <1>6, <1>7, <1>8, <1>9, <1>10, <1>11, <1>12, <1>13, <1>14, <1>15
  DEF Next, Install, Uninstall

(* A controller with one line in service, or none, has none after the end  *)
(* of an interrupt.                                                        *)
LEMMA EndOfOne == EndOf({}) = {} /\ \A x \in Int : EndOf({x}) = {}
BY DEF EndOf

LEMMA EoiBalancedNext ==
  ASSUME TypeOK, FlagInv, EoiBalanced, [Next]_vars
  PROVE  EoiBalanced'
<1> USE DEF lists, pic, device, main
<1>1. ASSUME UNCHANGED <<isrM, isrS, cur>> PROVE EoiBalanced'
  BY <1>1 DEF EoiBalanced
<1>2. CASE Install \/ Uninstall
  <2>1. UNCHANGED <<isrM, isrS, cur>>
    BY <1>2 DEF Install, Uninstall, Unmask, Cli, LinkNext, LinkHead, Sti, Unlink, Mask
  <2> QED
    BY <1>1, <2>1
<1>3. CASE CallHandler
  BY <1>1, <1>3 DEF CallHandler
<1>4. CASE EndDispatch
  <2>1. cur' = Idle /\ Eoi(cur) /\ cur \in 0..16
    BY <1>4 DEF EndDispatch, FlagInv, TypeOK, Lines
  <2>2. isrM' = {} /\ isrS' = {}
    <3>1. CASE cur \in 0..7
      <4>1. isrM = {cur} /\ isrS = {}
        BY <3>1 DEF EoiBalanced
      <4> QED
        BY <2>1, <3>1, <4>1, EndOfOne DEF Eoi
    <3>2. CASE cur \in 8..15
      <4>1. isrM = {2} /\ isrS = {cur}
        BY <3>2 DEF EoiBalanced
      <4> QED
        BY <2>1, <3>2, <4>1, EndOfOne DEF Eoi
    <3>3. CASE cur = 16
      <4>1. isrM = {} /\ isrS = {}
        BY <3>3 DEF EoiBalanced
      <4> QED
        BY <2>1, <3>3, <4>1, EndOfOne DEF Eoi
    <3> QED
      BY <2>1, <3>1, <3>2, <3>3
  <2> QED
    BY <2>1, <2>2 DEF EoiBalanced, Idle
<1>5. ASSUME NEW l \in 0..15, Accept(l) PROVE EoiBalanced'
  <2>1. isrM = {} /\ isrS = {}
    BY <1>5 DEF Accept, EoiBalanced
  <2>2. /\ cur' = l /\ isrM' = {OnMaster(l)}
        /\ isrS' = IF l >= 8 THEN {l} ELSE {}
    BY <1>5, <2>1 DEF Accept
  <2> QED
    BY <2>2 DEF EoiBalanced, OnMaster, Idle
<1>6. CASE Syscall
  BY <1>6 DEF Syscall, EoiBalanced, Idle
<1>7. CASE Exception
  BY <1>1, <1>7 DEF Exception
<1>8. ASSUME NEW h \in Handler, Raise(h) \/ CallInstall(h) \/ CallUninstall(h)
      PROVE  EoiBalanced'
  BY <1>1, <1>8 DEF Raise, CallInstall, CallUninstall
<1>9. CASE UNCHANGED vars
  BY <1>1, <1>9 DEF vars
<1> QED
  BY <1>2, <1>3, <1>4, <1>5, <1>6, <1>7, <1>8, <1>9 DEF Next, Dispatch

(* An edge-triggered line has one device: its handler, once linked, is the *)
(* first of the list.                                                      *)
LEMMA AloneOnLine ==
  ASSUME TypeOK, ListInv, NEW h \in Handler, LineOf[h] \notin Level, Linked(h)
  PROVE  irq_handlers[LineOf[h]] = h
<1>1. LineOf[h] \in Lines
  BY LineAssumption DEF Lines
<1>2. irq_handlers[LineOf[h]] \in Chain(LineOf[h])
  BY <1>1, HeadOnList DEF Linked
<1>3. Chain(LineOf[h]) \subseteq {h}
  BY <1>1, LineAssumption DEF ListInv, Devices
<1> QED
  BY <1>2, <1>3

LEMMA LostInvNext ==
  ASSUME TypeOK, ListInv, LostInv, [Next]_vars
  PROVE  LostInv'
<1> USE DEF lists, pic, device, main
<1> SUFFICES ASSUME NEW g \in raised'
             PROVE  /\ LineOf[g] < 16
                    /\ LineOf[g] \notin Level /\ LineOf[g] \notin irr' =>
                         g \in early' \/ (cur' = LineOf[g] /\ ptr' = g)
  BY DEF LostInv
<1> DEFINE l == LineOf[g]
<1>1. g \in raised =>
        /\ g \in Handler /\ l \in 0..15
        /\ l \notin Level /\ l \notin irr => g \in early \/ (cur = l /\ ptr = g)
  BY LineAssumption DEF LostInv, TypeOK
<1>2. CASE UNCHANGED <<raised, irr, early, cur, ptr>>
  BY <1>1, <1>2
<1>3. CASE CallHandler
  BY <1>1, <1>3 DEF CallHandler
<1>4. CASE EndDispatch
  BY <1>1, <1>4, LineAssumption DEF EndDispatch
<1>5. ASSUME NEW k \in 0..15, Accept(k)
      PROVE  l < 16 /\ (l \notin Level /\ l \notin irr' =>
                           g \in early' \/ (cur' = l /\ ptr' = g))
  <2>1. g \in raised /\ cur = Idle /\ cur # l
    BY <1>1, <1>5 DEF Accept, Idle
  <2>2. CASE l = k /\ l \notin Level
    <3>1. CASE Linked(g)
      BY <1>1, <1>5, <2>1, <2>2, <3>1, AloneOnLine DEF Accept
    <3>2. CASE ~Linked(g)
      BY <1>1, <1>5, <2>1, <2>2, <3>2 DEF Accept
    <3> QED
      BY <3>1, <3>2
  <2>3. CASE l # k \/ l \in Level
    BY <1>1, <1>5, <2>1, <2>3 DEF Accept
  <2> QED
    BY <2>2, <2>3
<1>6. CASE Syscall
  <2>1. cur # l \/ g \notin raised
    BY <1>1, <1>6 DEF Syscall, Idle
  <2> QED
    BY <1>1, <1>6, <2>1 DEF Syscall
<1>7. ASSUME NEW h \in Handler, Raise(h)
      PROVE  l < 16 /\ (l \notin Level /\ l \notin irr' =>
                           g \in early' \/ (cur' = l /\ ptr' = g))
  BY <1>1, <1>7 DEF Raise
<1>8. CASE Install \/ Uninstall \/ Exception
  BY <1>2, <1>8 DEF Install, Uninstall, Exception, Unmask, Cli, LinkNext, LinkHead, Sti, Unlink, Mask
<1>9. ASSUME NEW h \in Handler, CallInstall(h) \/ CallUninstall(h)
      PROVE  UNCHANGED <<raised, irr, early, cur, ptr>>
  BY <1>9 DEF CallInstall, CallUninstall
<1>10. CASE UNCHANGED vars
  BY <1>2, <1>10 DEF vars
<1> QED
  BY <1>2, <1>3, <1>4, <1>5, <1>6, <1>7, <1>8, <1>9, <1>10 DEF Next, Dispatch

-----------------------------------------------------------------------------
(* The theorems *)

LEMMA IInvInit == Init => IInv
<1> SUFFICES ASSUME Init PROVE IInv
  OBVIOUS
<1>1. TypeOK /\ ListInv
  BY TypeInit, ListInvInit
<1>2. CallInv /\ FlagInv
  BY DEF Init, CallInv, FlagInv, Critical, Idle
<1>3. MaskInv
  BY DEF Init, MaskInv, Open, Lines
<1>4. EoiBalanced /\ LostInv
  BY DEF Init, EoiBalanced, LostInv, Idle
<1> QED
  BY <1>1, <1>2, <1>3, <1>4 DEF IInv

LEMMA IInvNext == IInv /\ [Next]_vars => IInv'
<1> SUFFICES ASSUME IInv, [Next]_vars PROVE IInv'
  OBVIOUS
<1>1. TypeOK /\ ListInv /\ CallInv /\ FlagInv /\ MaskInv /\ EoiBalanced /\ LostInv
  BY DEF IInv
<1>2. TypeOK'
  BY <1>1, TypeNext
<1>3. ListInv' /\ CallInv'
  BY <1>1, <1>2, ListInvNext, CallInvNext
<1>4. FlagInv' /\ MaskInv'
  BY <1>1, <1>2, FlagInvNext, MaskInvNext
<1>5. EoiBalanced' /\ LostInv'
  BY <1>1, EoiBalancedNext, LostInvNext
<1> QED
  BY <1>2, <1>3, <1>4, <1>5 DEF IInv

THEOREM IrqInv == Spec => []IInv
BY IInvInit, IInvNext, PTL DEF Spec

(* The pointers, the controllers' registers and the bounds of irq.c and    *)
(* its devices keep their types.                                           *)
THEOREM IrqTypes == Spec => []TypeOK
<1>1. IInv => TypeOK
  BY DEF IInv
<1> QED
  BY <1>1, IrqInv, PTL

(* However install_irq_handler and uninstall_irq_handler are called and    *)
(* interrupted, no list of handlers becomes circular, and none holds an    *)
(* object of another line.                                                 *)
THEOREM IrqListsSound == Spec => []ListsSound
<1>1. IInv => ListsSound
  <2> SUFFICES ASSUME ListInv, NEW l \in Lines
               PROVE  ~Circular(l) /\ Chain(l) \subseteq Devices(l)
    BY DEF IInv, ListsSound
  <2> QED
    BY DEF ListInv, Circular, Ends, Chain
<1> QED
  BY <1>1, IrqInv, PTL

(* irq_handler never runs while a list is being changed, and the pointer   *)
(* it follows is on the list of the line it serves.                        *)
THEOREM IrqWalkSafe == Spec => []WalkSafe
<1>1. IInv => WalkSafe
  BY DEF IInv, FlagInv, Critical, WalkSafe
<1> QED
  BY <1>1, IrqInv, PTL

(* Outside install and uninstall a line is masked exactly when it has no   *)
(* handler, the cascade apart.                                             *)
THEOREM IrqMaskMatches == Spec => []MaskMatches
<1>1. IInv => MaskMatches
  BY DEF IInv, MaskInv, Open, MaskMatches
<1> QED
  BY <1>1, IrqInv, PTL

(* irq_handler acknowledges both controllers for exactly what they         *)
(* delivered.                                                              *)
THEOREM IrqEoiBalanced == Spec => []EoiBalanced
<1>1. IInv => EoiBalanced
  BY DEF IInv
<1> QED
  BY <1>1, IrqInv, PTL

(* The only edges that are lost are the ones taken while the line was open *)
(* and its handler not linked.                                             *)
THEOREM IrqLostOnlyEarly == Spec => []LostOnlyEarly
<1>1. IInv => LostOnlyEarly
  BY DEF IInv, LostInv, LostOnlyEarly
<1> QED
  BY <1>1, IrqInv, PTL

(* Installing or removing one handler never adds or drops another one,     *)
(* wherever on its list it is.                                             *)
THEOREM IrqOthersStay == Spec => OthersStay
<1>1. ASSUME IInv, IInv', [Next]_vars
      PROVE  [\A h \in Handler \ {arg} : Linked(h)' = Linked(h)]_vars
  <2> SUFFICES ASSUME NEW h \in Handler \ {arg} PROVE Linked(h)' = Linked(h)
    OBVIOUS
  <2>1. TypeOK /\ TypeOK' /\ ListInv /\ CallInv /\ LineOf[h] \in Lines
    BY <1>1, LineAssumption DEF IInv, Lines
  <2>2. CASE UNCHANGED lists
    BY <2>2, LinkedSame
  <2>3. CASE LinkNext
    BY <2>1, <2>3, AfterLinkNext DEF Linked
  <2>4. CASE LinkHead
    BY <2>1, <2>4, AfterLinkHead DEF Linked
  <2>5. CASE Unlink
    BY <2>1, <2>5, AfterUnlink DEF Linked
  <2> QED
    BY <1>1, <2>2, <2>3, <2>4, <2>5, ListSteps
<1> QED
  BY <1>1, IrqInv, PTL DEF Spec, OthersStay
=============================================================================
