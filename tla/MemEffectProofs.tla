--------------------------- MODULE MemEffectProofs ---------------------------
(***************************************************************************)
(* For every program, memory map, hook list and number of calls: what      *)
(* load_helper and store_helper do with the TLB entry, the region and the  *)
(* permissions they looked up before they called hooks, and what is in     *)
(* memory after instructions that were stopped, refused, faulted or        *)
(* retried.  Each theorem names the rules for callbacks that it needs.     *)
(***************************************************************************)
EXTENDS MemAccessProofs

-----------------------------------------------------------------------------
(* The invariants *)

\* What the helper's copies of the TLB word and of the region are worth.
Fresh ==
    InAccess =>
        /\ ~frame.freed
        /\ phase \in {"permission", "prot", "go"} =>
              /\ frame.mr /\ frame.hit /\ P \in mapped /\ ~frame.flushed
              /\ kind = "store" /\ phase # "go" => (frame.discard <=> "w" \notin perms[P])
        /\ phase = "prot" /\ kind = "store" => "w" \notin perms[P]
        /\ phase = "go" /\ kind = "store" /\ frame.discard => P \in excused
        /\ phase = "plain" =>
              /\ frame.hit <=> frame.mr
              /\ frame.mr => P \in mapped
              /\ kind = "load" => frame.mr
              /\ kind = "store" => ~frame.flushed /\ (frame.mr => (frame.discard <=> "w" \notin perms[P]))
        /\ phase = "unmapped" => ~frame.mr /\ ~frame.hit

\* The page an access has got to stays mapped, and its permission was checked.
Allowed ==
    InAccess =>
        /\ frame.mr /\ phase \in {"plain", "permission", "prot", "go"} => P \in mapped
        /\ phase \in {"permission", "prot", "go"} => frame.mr
        /\ kind = "load" /\ frame.sub = 1 =>
              phase \in {"lookup", "go"} /\ P \in mapped /\ ("r" \in perms[P] \/ P \in excused)
        /\ Checked

\* Memory holds what the instructions that retired wrote, and the bytes of the one
\* under way.
Memory ==
    /\ pc > Len(Program) => mem = expect
    /\ pc <= Len(Program) =>
        /\ \A b \in Byte : b \notin Bytes(Insn) => mem[b] = expect[b]
        /\ Insn.op \in {"load", "fetch"} => \A b \in Byte : mem[b] = expect[b]
        /\ Insn.op = "store" => \A b \in Bytes(Insn) : mem[b] \in {expect[b], Insn.val}

\* The bytes of a store that are done were written, or the page refuses them.
Done(b) ==
    \/ phase = "check"
    \/ phase = "stored" /\ (frame.sub = 0 \/ b <= frame.at)
    \/ frame.sub # 0 /\ b < frame.at

StoreDone ==
    pc <= Len(Program) /\ Insn.op = "store" /\ InAccess /\ ~exit_request =>
        \A b \in Bytes(Insn) : Done(b) =>
            PageOf(b) \in mapped /\ (PageOf(b) \notin excused => mem[b] = Insn.val)

\* A read-modify-write instruction: its load has returned the byte; its store writes
\* it only if nothing makes the instruction run again.
Inc == pc <= Len(Program) /\ Insn.op = "inc"

IncLoad ==
    Inc /\ InAccess /\ step = 1 /\ phase \in {"after", "check"} /\ ~exit_request =>
        tmp = mem[Insn.addr] /\ PageOf(Insn.addr) \in mapped

IncMem ==
    Inc /\ ~(InAccess /\ step = 2 /\ phase \in {"stored", "check"} /\ ~exit_request) =>
        mem[Insn.addr] = expect[Insn.addr]

IncStore ==
    Inc /\ InAccess /\ step = 2 =>
        /\ tmp = expect[Insn.addr] /\ PageOf(Insn.addr) \in mapped
        /\ phase \in {"lookup", "plain", "permission", "prot", "go", "stored", "check"}
        /\ phase = "plain" => frame.mr
        /\ phase \in {"lookup", "plain", "permission", "prot"} => excused = {}
        /\ excused \subseteq {PageOf(Insn.addr)}
        /\ phase \notin {"stored", "check"} => ~exit_request
        /\ phase = "go" => (frame.discard <=> excused # {})
        /\ phase \in {"stored", "check"} /\ ~exit_request =>
              mem[Insn.addr] = (IF excused # {} THEN expect[Insn.addr] ELSE expect[Insn.addr] + 1)

Written == Memory /\ StoreDone /\ IncLoad /\ IncMem /\ IncStore

-----------------------------------------------------------------------------
(* The TLB entry and the region of an access *)

\* Outside the phases that use them only the region matters.
LEMMA FreshRest ==
    ASSUME ~frame'.freed,
           phase' \notin {"permission", "prot", "go", "plain", "unmapped"}
    PROVE  Fresh'
BY DEF Fresh

\* Every step keeps the entry and the region live as long as they are needed.
LEMMA FreshStep ==
    ASSUME TypeOK, Shape, Fresh, Next, "kept" \in Rules, "still" \in Rules
    PROVE  Fresh'
<1>1. CASE uc_emu_start
  BY <1>1 DEF uc_emu_start, Fresh, InAccess
<1>2. CASE Begin
  <2>1. pc \in DOMAIN Program
    BY <1>2, ProgramAssumption DEF Begin, TypeOK
  <2>2. Insn.addr \in Nat
    BY <2>1, InsnProps DEF Insn
  <2>3. ~frame'.freed
    BY <1>2, <2>2, NoFrameProps DEF Begin
  <2>4. phase' \in {"check", "lookup"}
    BY <1>2 DEF Begin
  <2> QED BY <2>3, <2>4, FreshRest
<1>3. CASE AtExit
  BY <1>3 DEF AtExit, Return, Fresh, InAccess
<1>4. CASE Lookup
  <2>1. /\ UNCHANGED <<pc, step, mapped, perms>> /\ frame'.at = frame.at
        /\ ~frame'.flushed /\ ~frame'.freed
        /\ frame'.mr <=> P \in mapped
        /\ frame'.hit <=> P \in mapped
        /\ frame'.discard <=> "w" \notin perms[P]
    BY <1>4, LookupProps
  <2>2. /\ phase' \in {"plain", "unmapped", "permission", "go"}
        /\ phase' = "unmapped" => ~frame'.mr
        /\ phase' = "permission" => frame'.mr
        /\ phase' = "go" => frame'.mr /\ kind = "load"
    BY <1>4, LookupProps
  <2>3. phase' = "plain" /\ kind = "load" => frame'.mr
    BY <1>4, LookupProps
  <2>4. kind' = kind /\ P' = P
    BY <2>1, SameInsn DEF P
  <2> QED BY <2>1, <2>2, <2>3, <2>4 DEF Fresh
<1>5. CASE GuestFault
  BY <1>5 DEF GuestFault, Fresh, InAccess
<1>6. CASE Callback
  <2>1. UNCHANGED <<pc, step, phase, excused>> /\ InAccess /\ Walking
    BY <1>6, CallbackProps
  <2>2. /\ frame'.at = frame.at /\ frame'.mr = frame.mr
        /\ frame'.hit = frame.hit /\ frame'.discard = frame.discard
        /\ frame'.flushed => frame.flushed \/ MayFlush
        /\ frame'.freed => frame.freed
    BY <1>6, CallbackFrame
  <2>3. PICK f : CallEffect(f)
    BY <1>6, CallbackProps, Zenon
  <2>4. kind' = kind /\ P' = P /\ P \in AccessPages /\ P \in Page
    BY <2>1, <2>2, SameInsn, PageProps DEF P, Shape
  <2>5. ~frame'.freed
    BY <2>1, <2>2 DEF Fresh
  <2>6. P \in mapped => P \in mapped'
    BY <2>3, <2>4 DEF CallEffect
  <2>7. CASE phase \in {"unmapped", "after"}
    BY <2>1, <2>2, <2>5, <2>7 DEF Fresh
  <2>8. CASE phase = "plain" /\ kind = "load"
    BY <2>1, <2>2, <2>4, <2>5, <2>6, <2>8 DEF Fresh
  <2>9. CASE phase = "prot" \/ (phase = "plain" /\ kind # "load")
    <3>1. ~MayFlush
      BY <2>9 DEF MayFlush
    <3>2. frame'.flushed => frame.flushed
      BY <2>2, <3>1
    <3>3. "w" \in perms'[P] <=> "w" \in perms[P]
      BY <2>3, <2>4, <3>1 DEF CallEffect
    <3>4. CASE phase = "prot"
      BY <2>1, <2>2, <2>4, <2>5, <2>6, <3>2, <3>3, <3>4 DEF Fresh
    <3>5. CASE phase = "plain" /\ kind # "load"
      BY <2>1, <2>2, <2>4, <2>5, <2>6, <3>2, <3>3, <3>5 DEF Fresh
    <3> QED BY <2>9, <3>4, <3>5
  <2> QED BY <2>1, <2>7, <2>8, <2>9 DEF Walking
<1>7. CASE AfterUnmapped
  <2>1. UnmappedOutcome
    BY <1>7, UnmappedProps
  <2>2. phase = "unmapped" /\ UNCHANGED <<pc, step, mapped, perms>>
    BY <2>1 DEF UnmappedOutcome
  <2>3. ~frame.hit /\ ~frame.freed /\ kind' = kind
    BY <2>2, SameInsn DEF Fresh, InAccess
  <2>4. CASE phase' = (IF kind = "store" THEN "stored" ELSE "loop") /\ frame' = frame
    BY <2>3, <2>4, FreshRest
  <2>5. CASE /\ P \in mapped /\ frame'.mr /\ frame'.at = frame.at /\ frame'.freed = frame.freed
             /\ ~frame.hit => /\ frame'.hit /\ ~frame'.flushed
                              /\ frame'.discard <=> "w" \notin perms[P]
             /\ phase' = IF kind # "load" THEN "permission"
                         ELSE IF size_recur_mem THEN "go" ELSE "plain"
    <3>1. P' = P
      BY <2>5 DEF P
    <3>2. /\ phase' \in {"permission", "go", "plain"}
          /\ phase' # "permission" => kind = "load"
      BY <2>5
    <3>3. frame'.hit /\ ~frame'.flushed /\ (frame'.discard <=> "w" \notin perms[P]) /\ ~frame'.freed
      BY <2>3, <2>5
    <3> QED BY <2>2, <2>3, <2>5, <3>1, <3>2, <3>3 DEF Fresh
  <2> QED BY <2>1, <2>4, <2>5 DEF UnmappedOutcome
<1>8. CASE AfterPlain
  <2>1. /\ phase = "plain" /\ UNCHANGED <<pc, step, mapped, perms>>
        /\ phase' = (IF frame.mr THEN "permission" ELSE "unmapped")
        /\ frame'.at = frame.at /\ frame'.freed = frame.freed /\ frame'.mr = frame.mr
        /\ \/ frame' = frame /\ ~(kind = "load" /\ frame.flushed)
           \/ /\ kind = "load" /\ ~frame'.flushed /\ (frame'.hit <=> P \in mapped)
              /\ frame'.discard <=> "w" \notin perms[P]
    BY <1>8, PlainProps
  <2>2. kind' = kind /\ P' = P
    BY <2>1, SameInsn DEF P
  <2>3. /\ ~frame.freed /\ (frame.hit <=> frame.mr) /\ (frame.mr => P \in mapped)
        /\ kind = "load" => frame.mr
        /\ kind = "store" => ~frame.flushed /\ (frame.mr => (frame.discard <=> "w" \notin perms[P]))
    BY <2>1 DEF Fresh, InAccess
  <2>4. kind \in {"load", "store"}
    BY <2>1, KindProps DEF Shape, InAccess
  <2>5. frame.mr => frame'.hit /\ ~frame'.flushed
    BY <2>1, <2>3, <2>4
  <2>6. kind = "store" /\ frame.mr => (frame'.discard <=> "w" \notin perms[P])
    BY <2>1, <2>3
  <2>7. ~frame.mr => ~frame'.mr /\ ~frame'.hit
    BY <2>1, <2>3
  <2>8. CASE frame.mr
    BY <2>1, <2>2, <2>3, <2>5, <2>6, <2>8 DEF Fresh
  <2>9. CASE ~frame.mr
    BY <2>1, <2>2, <2>3, <2>7, <2>9 DEF Fresh
  <2> QED BY <2>8, <2>9
<1>9. CASE Permission
  <2>1. /\ phase = "permission" /\ UNCHANGED <<pc, step, mapped, perms>>
        /\ phase' = (IF Need(kind) \in perms[P] THEN "go" ELSE "prot")
        /\ frame'.at = frame.at /\ frame'.freed = frame.freed /\ frame'.mr = frame.mr
        /\ frame'.hit = frame.hit /\ frame'.flushed = frame.flushed /\ frame'.discard = frame.discard
    BY <1>9, PermissionProps
  <2>2. kind' = kind /\ P' = P
    BY <2>1, SameInsn DEF P
  <2>3. /\ ~frame.freed /\ frame.mr /\ frame.hit /\ P \in mapped /\ ~frame.flushed
        /\ kind = "store" => (frame.discard <=> "w" \notin perms[P])
    BY <2>1 DEF Fresh, InAccess
  <2>4. kind = "store" => Need(kind) = "w"
    BY DEF Need
  <2> QED BY <2>1, <2>2, <2>3, <2>4 DEF Fresh
<1>10. CASE AfterProt
  <2>1. ProtOutcome
    BY <1>10, ProtProps
  <2>2. phase = "prot" /\ UNCHANGED <<pc, step, mapped, perms>>
    BY <2>1 DEF ProtOutcome
  <2>3. ~frame.freed /\ frame.mr /\ frame.hit /\ P \in mapped /\ ~frame.flushed /\ kind' = kind
    BY <2>2, SameInsn DEF Fresh, InAccess
  <2>4. CASE phase' = (IF kind = "store" THEN "stored" ELSE "loop") /\ frame' = frame
    BY <2>3, <2>4, FreshRest
  <2>5. CASE phase' = "go" /\ excused' = excused \cup {P} /\ (frame.hit => frame' = frame)
    <3>1. frame' = frame /\ P' = P
      BY <2>3, <2>5 DEF P
    <3> QED BY <2>2, <2>3, <2>5, <3>1 DEF Fresh
  <2> QED BY <2>1, <2>4, <2>5 DEF ProtOutcome
<1>11. CASE BeginSplit
  <2>1. phase = "go" /\ phase' = "lookup"
    BY <1>11 DEF BeginSplit
  <2>2. InAccess /\ frame \in Frame /\ pc \in DOMAIN Program
    BY <2>1 DEF InAccess, TypeOK, Shape
  <2> DEFINE g == [frame EXCEPT !.old = size_recur_mem]
  <2>3. g \in Frame
    BY <2>2, Zenon DEF Frame, TypeOK
  <2>4. frame' = CallFor(1, g)
    BY <1>11 DEF BeginSplit
  <2> HIDE DEF g
  <2>5. ~frame'.freed
    BY <2>2, <2>3, <2>4, CallProps
  <2> QED BY <2>1, <2>5, FreshRest
<1>12. ASSUME phase \in {"go", "stored"}, Finish, kind \in {"load", "store"}
       PROVE  Fresh'
  <2>1. InAccess /\ frame \in Frame /\ pc \in DOMAIN Program /\ ~frame.freed
    BY <1>12 DEF InAccess, TypeOK, Shape, Fresh
  <2>2. FinishOutcome
    BY <1>12, <2>1, FinishProps
  <2>3. CASE /\ frame.sub + 1 \in 1..Parts /\ frame' = CallFor(frame.sub + 1, frame)
             /\ phase' = "lookup"
    <3>1. ~frame'.freed
      BY <1>12, <2>1, <2>3, CallShape, Zenon
    <3> QED BY <2>3, <3>1, FreshRest
  <2>4. CASE /\ frame'.freed = frame.freed
             /\ phase' = IF kind = "load" /\ ~size_recur_mem' THEN "after" ELSE "check"
    BY <2>1, <2>4, FreshRest
  <2> QED BY <2>2, <2>3, <2>4 DEF FinishOutcome
<1>13. CASE Load
  BY <1>12, <1>13 DEF Load
<1>14. ASSUME InAccess, frame' = frame, phase' \in {"check", "stored", "loop"}
       PROVE  Fresh'
  BY <1>14, FreshRest DEF Fresh
<1>15. CASE Fetch
  BY <1>14, <1>15 DEF Fetch, InAccess
<1>16. CASE Store
  BY <1>14, <1>16 DEF Store, InAccess
<1>17. CASE Stored
  <2>1. phase = "stored" /\ Finish
    BY <1>17 DEF Stored
  <2>2. kind = "store"
    BY <2>1 DEF Shape, InAccess
  <2> QED BY <1>12, <2>1, <2>2
<1>18. CASE AfterRead
  BY <1>14, <1>18 DEF AfterRead, InAccess
<1>19. CASE check_exit_request
  <2>1. phase = "check" /\ pc \in DOMAIN Program
    BY <1>19 DEF check_exit_request, InAccess, Shape
  <2>2. Insn.addr \in Nat
    BY <2>1, InsnProps DEF Insn
  <2>3. CASE phase' = "loop" /\ frame' = frame
    BY <2>3 DEF Fresh, InAccess
  <2>4. CASE frame' = [NoFrame EXCEPT !.at = Insn.addr] /\ phase' = "lookup"
    BY <2>2, <2>4, NoFrameProps, FreshRest
  <2>5. CASE phase' = "next"
    BY <2>5 DEF Fresh, InAccess
  <2> QED BY <1>19, <2>3, <2>4, <2>5 DEF check_exit_request
<1>20. CASE tcg_cpu_exec
  BY <1>20 DEF tcg_cpu_exec, Return, Fresh, InAccess
<1> QED BY <1>1, <1>2, <1>3, <1>4, <1>5, <1>6, <1>7, <1>8, <1>9, <1>10, <1>11, <1>13,
           <1>15, <1>16, <1>17, <1>18, <1>19, <1>20 DEF Next

-----------------------------------------------------------------------------
(* The permission of an access *)

\* Outside the phases with a region, and outside the first call of a split load.
LEMMA AllowedRest ==
    ASSUME phase' \notin {"plain", "permission", "prot", "go"}, ~(kind' = "load" /\ frame'.sub = 1)
    PROVE  Allowed'
BY DEF Allowed, Checked

\* Every step checks the permission before memory is reached.
LEMMA AllowedStep ==
    ASSUME TypeOK, Shape, Recursion, Allowed, Next, "kept" \in Rules
    PROVE  Allowed'
<1>1. CASE uc_emu_start
  BY <1>1 DEF uc_emu_start, Allowed, InAccess
<1>2. CASE Begin
  <2>1. pc \in DOMAIN Program
    BY <1>2, ProgramAssumption DEF Begin, TypeOK
  <2>2. Insn.addr \in Nat
    BY <2>1, InsnProps DEF Insn
  <2>3. frame'.sub = 0
    BY <1>2, <2>2, NoFrameProps DEF Begin
  <2>4. phase' \in {"check", "lookup"}
    BY <1>2 DEF Begin
  <2> QED BY <2>3, <2>4, AllowedRest
<1>3. CASE AtExit
  BY <1>3 DEF AtExit, Return, Allowed, InAccess
<1>4. CASE Lookup
  <2>1. /\ UNCHANGED <<pc, step, mapped, perms, excused>> /\ frame'.at = frame.at
        /\ frame'.sub = frame.sub /\ (frame'.mr <=> P \in mapped) /\ phase = "lookup"
    BY <1>4, LookupProps
  <2>2. /\ phase' \in {"plain", "unmapped", "permission", "go"}
        /\ phase' \in {"permission", "go"} => frame'.mr
        /\ phase' = "go" => kind = "load" /\ size_recur_mem
    BY <1>4, LookupProps
  <2>3. InAccess /\ kind' = kind /\ P' = P
    BY <2>1, SameInsn DEF P, InAccess
  <2>4. CASE kind = "load" /\ frame.sub = 1
    <3>1. P \in mapped /\ ("r" \in perms[P] \/ P \in excused) /\ Need(kind) = "r"
      BY <2>1, <2>3, <2>4 DEF Allowed, Need
    <3>2. size_recur_mem
      BY <2>3, <2>4 DEF Shape
    <3>3. phase' = "go"
      BY <1>4, <2>1, <2>4, <3>1, <3>2, LookupProps
    <3> QED BY <2>1, <2>2, <2>3, <3>1, <3>3 DEF Allowed, Checked
  <2>5. CASE ~(kind = "load" /\ frame.sub = 1)
    <3>1. phase' = "go" => kind = "load" /\ frame.sub = 2
      <4>1. SUFFICES ASSUME phase' = "go" PROVE frame.sub = 2
        BY <2>2
      <4>2. kind = "load" /\ frame.sub # 0
        BY <2>2, <2>3, <4>1 DEF Recursion
      <4>3. frame.sub <= 2 /\ frame.sub \in Nat
        BY <2>3, <4>2 DEF Shape, Parts, TypeOK, Frame
      <4> QED BY <2>5, <4>2, <4>3
    <3> QED BY <2>1, <2>2, <2>3, <2>5, <3>1 DEF Allowed, Checked
  <2> QED BY <2>4, <2>5
<1>5. CASE GuestFault
  BY <1>5 DEF GuestFault, Allowed, InAccess
<1>6. CASE Callback
  <2>1. UNCHANGED <<pc, step, phase, excused>> /\ InAccess /\ Walking
    BY <1>6, CallbackProps
  <2>2. frame'.at = frame.at /\ frame'.mr = frame.mr /\ frame'.sub = frame.sub
    BY <1>6, CallbackFrame
  <2>3. PICK f : CallEffect(f)
    BY <1>6, CallbackProps, Zenon
  <2>4. kind' = kind /\ P' = P /\ P \in AccessPages
    BY <2>1, <2>2, SameInsn, PageProps DEF P, Shape
  <2>5. P \in mapped => P \in mapped'
    BY <2>3, <2>4 DEF CallEffect
  <2>6. phase \notin {"lookup", "go"}
    BY <2>1 DEF Walking
  <2> QED BY <2>1, <2>2, <2>4, <2>5, <2>6 DEF Allowed, Checked
<1>7. CASE AfterUnmapped
  <2>1. UnmappedOutcome
    BY <1>7, UnmappedProps
  <2>2. phase = "unmapped" /\ UNCHANGED <<pc, step, mapped, perms, excused>> /\ frame'.sub = frame.sub
    BY <2>1 DEF UnmappedOutcome
  <2>3. InAccess /\ kind' = kind /\ ~(kind = "load" /\ frame.sub = 1)
    BY <2>2, SameInsn DEF Allowed, InAccess
  <2>4. CASE phase' = IF kind = "store" THEN "stored" ELSE "loop"
    BY <2>2, <2>3, <2>4, AllowedRest
  <2>5. CASE /\ P \in mapped /\ frame'.mr /\ frame'.at = frame.at
             /\ phase' = IF kind # "load" THEN "permission"
                         ELSE IF size_recur_mem THEN "go" ELSE "plain"
    <3>1. P' = P
      BY <2>5 DEF P
    <3>2. phase' = "go" => kind = "load" /\ frame.sub = 2
      <4>1. SUFFICES ASSUME phase' = "go" PROVE kind = "load" /\ frame.sub = 2
        OBVIOUS
      <4>2. kind = "load" /\ frame.sub # 0
        BY <2>3, <2>5, <4>1 DEF Recursion
      <4>3. frame.sub <= 2 /\ frame.sub \in Nat
        BY <2>3, <4>2 DEF Shape, Parts, TypeOK, Frame
      <4> QED BY <2>3, <4>2, <4>3
    <3> QED BY <2>2, <2>3, <2>5, <3>1, <3>2 DEF Allowed, Checked
  <2> QED BY <2>1, <2>4, <2>5 DEF UnmappedOutcome
<1>8. CASE AfterPlain
  <2>1. /\ phase = "plain" /\ UNCHANGED <<pc, step, mapped, perms, excused>>
        /\ phase' = (IF frame.mr THEN "permission" ELSE "unmapped")
        /\ frame'.at = frame.at /\ frame'.sub = frame.sub /\ frame'.mr = frame.mr
    BY <1>8, PlainProps
  <2>2. InAccess /\ kind' = kind /\ P' = P
    BY <2>1, SameInsn DEF P, InAccess
  <2> QED BY <2>1, <2>2 DEF Allowed, Checked
<1>9. CASE Permission
  <2>1. /\ phase = "permission" /\ UNCHANGED <<pc, step, mapped, perms, excused>>
        /\ phase' = (IF Need(kind) \in perms[P] THEN "go" ELSE "prot")
        /\ frame'.at = frame.at /\ frame'.sub = frame.sub /\ frame'.mr = frame.mr
    BY <1>9, PermissionProps
  <2>2. InAccess /\ kind' = kind /\ P' = P
    BY <2>1, SameInsn DEF P, InAccess
  <2> QED BY <2>1, <2>2 DEF Allowed, Checked
<1>10. CASE AfterProt
  <2>1. ProtOutcome
    BY <1>10, ProtProps
  <2>2. /\ phase = "prot" /\ UNCHANGED <<pc, step, mapped, perms>>
        /\ frame'.at = frame.at /\ frame'.sub = frame.sub /\ frame'.mr = frame.mr
    BY <2>1 DEF ProtOutcome
  <2>3. InAccess /\ kind' = kind /\ P' = P /\ ~(kind = "load" /\ frame.sub = 1)
    BY <2>2, SameInsn DEF P, InAccess, Allowed
  <2>4. CASE phase' = IF kind = "store" THEN "stored" ELSE "loop"
    BY <2>2, <2>3, <2>4, AllowedRest
  <2>5. CASE phase' = "go" /\ excused' = excused \cup {P}
    BY <2>2, <2>3, <2>5 DEF Allowed, Checked
  <2> QED BY <2>1, <2>4, <2>5 DEF ProtOutcome
<1>11. CASE BeginSplit
  <2>1. /\ phase = "go" /\ phase' = "lookup" /\ frame.sub = 0
        /\ UNCHANGED <<pc, step, mapped, perms, excused>>
    BY <1>11 DEF BeginSplit, Straddles, where, world, ghost
  <2>2. InAccess /\ frame \in Frame /\ pc \in DOMAIN Program /\ frame.at = Insn.addr
    BY <2>1 DEF InAccess, TypeOK, Shape
  <2>3. Insn.addr \in Nat /\ Insn' = Insn /\ kind' = kind
    BY <2>1, <2>2, InsnProps, SameInsn DEF Insn
  <2> DEFINE g == [frame EXCEPT !.old = size_recur_mem]
  <2>4. g \in Frame
    BY <2>2, Zenon DEF Frame, TypeOK
  <2>5. frame' = CallFor(1, g)
    BY <1>11 DEF BeginSplit
  <2> HIDE DEF g
  <2>6. frame'.at = Insn.addr
    <3>1. frame'.at = Insn.addr + 1 - 1
      BY <2>2, <2>4, <2>5, CallProps
    <3> QED BY <2>3, <3>1
  <2>7. P' = P
    BY <2>2, <2>6 DEF P
  <2>8. kind = "load" => P \in mapped /\ ("r" \in perms[P] \/ P \in excused)
    <3>1. frame.mr /\ P \in mapped /\ Checked
      BY <2>1, <2>2 DEF Allowed
    <3>2. kind = "load" => Need(kind) = "r"
      BY DEF Need
    <3> QED BY <2>1, <3>1, <3>2 DEF Checked
  <2> QED BY <2>1, <2>3, <2>7, <2>8 DEF Allowed, Checked
<1>12. ASSUME phase \in {"go", "stored"}, Finish, kind \in {"load", "store"}, UNCHANGED <<pc, step>>
       PROVE  Allowed'
  <2>1. InAccess /\ frame \in Frame /\ pc \in DOMAIN Program
    BY <1>12 DEF InAccess, TypeOK, Shape
  <2>2. FinishOutcome
    BY <1>12, <2>1, FinishProps
  <2>3. CASE /\ frame.sub \in 1..Parts - 1 /\ frame.sub + 1 \in 1..Parts
             /\ frame' = CallFor(frame.sub + 1, frame) /\ phase' = "lookup"
    <3>1. frame'.sub = frame.sub + 1
      BY <1>12, <2>1, <2>3, CallShape, Zenon
    <3>2. frame'.sub # 1
      BY <2>3, <3>1
    <3> QED BY <2>3, <3>2, AllowedRest
  <2>4. CASE /\ frame'.sub = 0
             /\ phase' = IF kind = "load" /\ ~size_recur_mem' THEN "after" ELSE "check"
    BY <2>4, AllowedRest
  <2> QED BY <2>2, <2>3, <2>4 DEF FinishOutcome
<1>13. CASE Load
  BY <1>12, <1>13 DEF Load, where
<1>14. CASE Fetch
  <2>1. phase = "go" /\ kind = "fetch" /\ phase' = "check" /\ UNCHANGED <<pc, step>>
    BY <1>14 DEF Fetch
  <2>2. kind' = "fetch"
    BY <2>1, SameInsn
  <2> QED BY <2>1, <2>2, AllowedRest
<1>15. CASE Store
  <2>1. phase = "go" /\ kind = "store" /\ phase' = "stored" /\ UNCHANGED <<pc, step>>
    BY <1>15 DEF Store, where
  <2>2. kind' = "store"
    BY <2>1, SameInsn
  <2> QED BY <2>1, <2>2, AllowedRest
<1>16. CASE Stored
  <2>1. phase = "stored" /\ Finish /\ UNCHANGED <<pc, step>>
    BY <1>16 DEF Stored, where
  <2>2. kind = "store"
    BY <2>1 DEF Shape, InAccess
  <2> QED BY <1>12, <2>1, <2>2
<1>17. CASE AfterRead
  <2>1. phase = "after" /\ phase' = "check" /\ UNCHANGED frame
    BY <1>17 DEF AfterRead
  <2>2. frame'.sub = 0
    BY <2>1 DEF Shape, InAccess
  <2> QED BY <2>1, <2>2, AllowedRest
<1>18. CASE check_exit_request
  <2>1. phase = "check" /\ pc \in DOMAIN Program
    BY <1>18 DEF check_exit_request, InAccess, Shape
  <2>2. Insn.addr \in Nat
    BY <2>1, InsnProps DEF Insn
  <2>3. CASE phase' \in {"loop", "next"}
    BY <2>3 DEF Allowed, InAccess
  <2>4. CASE frame' = [NoFrame EXCEPT !.at = Insn.addr] /\ phase' = "lookup"
    BY <2>2, <2>4, NoFrameProps, AllowedRest
  <2> QED BY <1>18, <2>3, <2>4 DEF check_exit_request
<1>19. CASE tcg_cpu_exec
  BY <1>19 DEF tcg_cpu_exec, Return, Allowed, InAccess
<1> QED BY <1>1, <1>2, <1>3, <1>4, <1>5, <1>6, <1>7, <1>8, <1>9, <1>10, <1>11, <1>13, <1>14,
           <1>15, <1>16, <1>17, <1>18, <1>19 DEF Next

-----------------------------------------------------------------------------
(* What memory holds *)

\* The exit check retires the instruction.
Retire ==
    /\ phase = "check" /\ ~exit_request /\ step = Len(Kinds(Insn.op))
    /\ pc' = pc + 1 /\ expect' = Applied(Insn) /\ phase' = "next"
    /\ UNCHANGED <<mapped, mem>>

\* Only callbacks, stores and the retirement of an instruction change what memory
\* holds or should hold.
LEMMA StepKinds ==
    ASSUME TypeOK, Shape, Next
    PROVE  \/ uc_emu_start \/ Callback \/ Store \/ Retire
           \/ UNCHANGED <<pc, mapped, mem, expect>>
<1>1. CASE Begin
  BY <1>1 DEF Begin, where, world
<1>2. CASE AtExit
  BY <1>2 DEF AtExit, where, world
<1>3. CASE Lookup
  BY <1>3, LookupProps, Zenon
<1>4. CASE GuestFault
  BY <1>4 DEF GuestFault
<1>5. CASE AfterUnmapped
  BY <1>5, UnmappedProps DEF UnmappedOutcome
<1>6. CASE AfterPlain
  BY <1>6, PlainProps
<1>7. CASE Permission
  BY <1>7, PermissionProps
<1>8. CASE AfterProt
  BY <1>8, ProtProps DEF ProtOutcome
<1>9. CASE BeginSplit
  BY <1>9 DEF BeginSplit, where, world, ghost
<1>10. CASE Load
  BY <1>10 DEF Load, where, world, ghost
<1>11. CASE Fetch
  BY <1>11 DEF Fetch, world, ghost
<1>12. CASE Stored
  BY <1>12 DEF Stored, where, world, ghost
<1>13. CASE AfterRead
  BY <1>13 DEF AfterRead, where, world, ghost
<1>14. CASE check_exit_request
  BY <1>14 DEF check_exit_request, where, world, ghost, Retire
<1>15. CASE tcg_cpu_exec
  BY <1>15 DEF tcg_cpu_exec, world
<1> QED BY <1>1, <1>2, <1>3, <1>4, <1>5, <1>6, <1>7, <1>8, <1>9, <1>10, <1>11, <1>12, <1>13, <1>14,
           <1>15 DEF Next

\* The instruction at pc, wherever the emulation is.
LEMMA AtInsn ==
    ASSUME TypeOK, pc <= Len(Program)
    PROVE  /\ pc \in DOMAIN Program
           /\ Insn.op \in {"load", "store", "fetch", "inc"} /\ Insn.val \in Nat
           /\ Insn.addr \in Nat /\ Insn.size \in Nat /\ Insn.size >= 1
           /\ Bytes(Insn) \subseteq Byte /\ Byte \subseteq Nat /\ Insn.addr \in Bytes(Insn)
           /\ Insn.op = "inc" => Bytes(Insn) = {Insn.addr} /\ ~Split(Insn)
<1>1. pc \in DOMAIN Program
  BY ProgramAssumption DEF TypeOK
<1> QED BY <1>1, InsnProps DEF Insn

\* An access under way is at an instruction.
LEMMA AccessInsn ==
    ASSUME TypeOK, Shape, InAccess
    PROVE  /\ pc <= Len(Program) /\ pc \in DOMAIN Program
           /\ kind \in {"load", "store", "fetch"}
           /\ Insn.op = "store" => kind = "store" /\ step = 1 /\ Len(Kinds(Insn.op)) = 1
           /\ Insn.op = "inc" => /\ frame.sub = 0 /\ frame.at = Insn.addr /\ P = PageOf(Insn.addr)
                                 /\ step \in {1, 2} /\ (step = 1 <=> kind = "load")
                                 /\ (step = 2 <=> kind = "store") /\ Len(Kinds(Insn.op)) = 2
           /\ kind = "store" => Insn.op \in {"store", "inc"}
<1>1. pc \in DOMAIN Program /\ step \in DOMAIN Kinds(Insn.op)
  BY DEF Shape
<1>2. pc <= Len(Program)
  BY <1>1, ProgramAssumption DEF TypeOK
<1>3. Insn.op = "inc" => frame.sub = 0 /\ frame.at = Insn.addr /\ P = PageOf(Insn.addr)
  BY <1>2, AtInsn DEF Shape, P
<1>4. /\ kind \in {"load", "store", "fetch"}
      /\ \/ Insn.op = kind /\ step = 1 /\ Len(Kinds(Insn.op)) = 1
         \/ Insn.op = "inc" /\ kind = "load" /\ step = 1 /\ Len(Kinds(Insn.op)) = 2
         \/ Insn.op = "inc" /\ kind = "store" /\ step = 2 /\ Len(Kinds(Insn.op)) = 2
  BY <1>1, KindProps
<1> QED BY <1>1, <1>2, <1>3, <1>4

\* A callback clears pages of memory, none of the access's that is mapped.
LEMMA CallbackMemory ==
    ASSUME TypeOK, Shape, Callback, "kept" \in Rules
    PROVE  \E Z \in SUBSET Page :
              /\ \A b \in Byte : mem'[b] = (IF PageOf(b) \in Z THEN 0 ELSE mem[b])
              /\ \A b \in Byte : expect'[b] = (IF PageOf(b) \in Z THEN 0 ELSE expect[b])
              /\ \A b \in Bytes(Insn) : PageOf(b) \in mapped => PageOf(b) \notin Z
              /\ \A b \in Bytes(Insn) : PageOf(b) \in mapped => PageOf(b) \in mapped'
<1>1. PICK f : CallEffect(f)
  BY CallbackProps, Zenon
<1>2. PICK Z \in SUBSET Page :
          /\ mem' = [b \in Byte |-> IF PageOf(b) \in Z THEN 0 ELSE mem[b]]
          /\ expect' = [b \in Byte |-> IF PageOf(b) \in Z THEN 0 ELSE expect[b]]
          /\ Z \cap mapped \cap AccessPages = {}
  BY <1>1 DEF CallEffect
<1>3. mapped \cap AccessPages \subseteq mapped'
  BY <1>1 DEF CallEffect
<1>4. \A b \in Bytes(Insn) : PageOf(b) \in AccessPages
  BY DEF AccessPages
<1> QED BY <1>2, <1>3, <1>4

\* What a store writes.
LEMMA StoreProps ==
    ASSUME TypeOK, Shape, Store
    PROVE  /\ InAccess /\ phase = "go" /\ kind = "store" /\ ~Straddles /\ phase' = "stored"
           /\ \A b \in Byte : mem'[b] =
                 IF ~frame.discard /\ b \in (IF frame.sub = 0 THEN Bytes(Insn) ELSE {frame.at})
                 THEN (IF Insn.op = "inc" THEN tmp + 1 ELSE Insn.val) ELSE mem[b]
           /\ UNCHANGED <<mapped, pc, step, frame, tmp, exit_request, excused, expect>>
           /\ frame.at \in Bytes(Insn)
<1>1. InAccess /\ frame.at \in Bytes(Insn)
  BY DEF Store, InAccess, Shape
<1> QED BY <1>1 DEF Store, where, engine, ghost

\* When an instruction retires, memory holds what it should.
LEMMA RetireMemory ==
    ASSUME TypeOK, Shape, Written, Retire
    PROVE  mem' = expect'
<1>1. InAccess
  BY DEF Retire, InAccess
<1>2. pc <= Len(Program)
  BY <1>1, AccessInsn
<1>3. Insn.op \in {"load", "store", "fetch", "inc"} /\ Bytes(Insn) \subseteq Byte
      /\ (Insn.op = "inc" => Bytes(Insn) = {Insn.addr})
  BY <1>2, AtInsn
<1>4. \A b \in Byte : expect'[b] =
          (CASE b \in Bytes(Insn) /\ Insn.op = "store"
                   /\ (PageOf(b) \in excused => mem[b] = Insn.val) -> Insn.val
            [] b \in Bytes(Insn) /\ Insn.op = "inc" /\ PageOf(b) \notin excused -> expect[b] + 1
            [] OTHER -> expect[b])
  BY DEF Retire, Applied
<1>5. ASSUME NEW b \in Byte PROVE mem[b] = expect'[b]
  <2>1. CASE b \notin Bytes(Insn)
    <3>1. expect'[b] = expect[b]
      BY <1>4, <2>1
    <3> QED BY <1>2, <2>1, <3>1 DEF Written, Memory
  <2>2. CASE b \in Bytes(Insn) /\ Insn.op \in {"load", "fetch"}
    <3>1. expect'[b] = expect[b]
      BY <1>4, <2>2
    <3> QED BY <1>2, <2>2, <3>1 DEF Written, Memory
  <2>3. CASE b \in Bytes(Insn) /\ Insn.op = "store"
    <3>1. mem[b] \in {expect[b], Insn.val}
      BY <1>2, <2>3 DEF Written, Memory
    <3>2. PageOf(b) \notin excused => mem[b] = Insn.val
      BY <1>1, <1>2, <2>3 DEF Written, StoreDone, Done, Retire
    <3>3. expect'[b] = IF PageOf(b) \in excused => mem[b] = Insn.val THEN Insn.val ELSE expect[b]
      BY <1>4, <2>3
    <3> QED BY <3>1, <3>2, <3>3
  <2>4. CASE b \in Bytes(Insn) /\ Insn.op = "inc"
    <3>1. b = Insn.addr /\ step = 2
      BY <1>1, <1>3, <2>4, AccessInsn DEF Retire
    <3>2. /\ excused \subseteq {PageOf(b)}
          /\ mem[b] = (IF excused # {} THEN expect[b] ELSE expect[b] + 1)
      BY <1>1, <1>2, <2>4, <3>1 DEF Written, IncStore, Inc, Retire
    <3>3. expect'[b] = IF PageOf(b) \notin excused THEN expect[b] + 1 ELSE expect[b]
      BY <1>4, <2>4
    <3> QED BY <3>2, <3>3
  <2> QED BY <1>3, <2>1, <2>2, <2>3, <2>4
<1>6. mem \in [Byte -> Nat] /\ expect' = [b \in Byte |-> expect'[b]] /\ mem' = mem
  BY DEF TypeOK, Retire, Applied
<1> QED BY <1>5, <1>6

\* Memory, whatever the step.
LEMMA MemoryStep ==
    ASSUME TypeOK, Shape, Written, Next, "kept" \in Rules
    PROVE  Memory'
<1>1. CASE uc_emu_start
  <2>1. pc' = (IF pc > Len(Program) THEN 1 ELSE pc) /\ UNCHANGED <<mem, expect>>
    BY <1>1 DEF uc_emu_start, world, ghost
  <2>2. CASE pc > Len(Program)
    <3>1. mem' = expect'
      BY <2>1, <2>2 DEF Written, Memory
    <3> QED BY <3>1 DEF Memory
  <2>3. CASE ~(pc > Len(Program))
    <3>1. pc' = pc /\ Insn' = Insn
      BY <2>1, <2>3 DEF Insn
    <3> QED BY <2>1, <3>1 DEF Written, Memory
  <2> QED BY <2>2, <2>3
<1>2. CASE Callback
  <2>1. UNCHANGED <<pc, step>> /\ InAccess
    BY <1>2, CallbackProps
  <2>2. pc <= Len(Program) /\ Insn' = Insn
    BY <2>1, AccessInsn, SameInsn
  <2>3. PICK Z \in SUBSET Page :
           /\ \A b \in Byte : mem'[b] = (IF PageOf(b) \in Z THEN 0 ELSE mem[b])
           /\ \A b \in Byte : expect'[b] = (IF PageOf(b) \in Z THEN 0 ELSE expect[b])
    BY <1>2, CallbackMemory
  <2>4. ASSUME NEW b \in Byte, mem[b] = expect[b] PROVE mem'[b] = expect'[b]
    BY <2>3, <2>4
  <2>5. ~(pc' > Len(Program))
    BY <2>1, <2>2, ProgramAssumption DEF TypeOK
  <2>6. Bytes(Insn) \subseteq Byte
    BY <2>2, AtInsn
  <2>7. \A b \in Byte : b \notin Bytes(Insn) => mem'[b] = expect'[b]
    BY <2>2, <2>4 DEF Written, Memory
  <2>8. Insn.op \in {"load", "fetch"} => \A b \in Byte : mem'[b] = expect'[b]
    BY <2>2, <2>4 DEF Written, Memory
  <2>9. Insn.op = "store" => \A b \in Bytes(Insn) : mem'[b] \in {expect'[b], Insn.val}
    <3>1. Insn.op = "store" => \A b \in Bytes(Insn) : mem[b] \in {expect[b], Insn.val}
      BY <2>2 DEF Written, Memory
    <3>2. SUFFICES ASSUME Insn.op = "store", NEW b \in Bytes(Insn)
                   PROVE  mem'[b] \in {expect'[b], Insn.val}
      OBVIOUS
    <3>3. b \in Byte /\ mem[b] \in {expect[b], Insn.val}
      BY <2>6, <3>1, <3>2
    <3> QED BY <2>3, <3>3
  <2> QED BY <2>2, <2>5, <2>7, <2>8, <2>9 DEF Memory
<1>3. CASE Store
  <2>1. InAccess /\ kind = "store" /\ UNCHANGED <<pc, expect>> /\ frame.at \in Bytes(Insn)
    BY <1>3, StoreProps
  <2>2. pc <= Len(Program) /\ Insn' = Insn /\ Insn.op \in {"store", "inc"}
    BY <2>1, AccessInsn DEF Insn
  <2>3. \A b \in Byte : b \notin Bytes(Insn) => mem'[b] = mem[b]
    BY <1>3, <2>1, StoreProps
  <2>4. \A b \in Byte : Insn.op = "store" => mem'[b] \in {mem[b], Insn.val}
    BY <1>3, StoreProps
  <2>5. Bytes(Insn) \subseteq Byte /\ ~(pc' > Len(Program))
    BY <2>1, <2>2, AtInsn, ProgramAssumption DEF TypeOK
  <2>6. Insn.op = "store" => \A b \in Bytes(Insn) : mem'[b] \in {expect[b], Insn.val}
    BY <2>2, <2>4, <2>5, Zenon DEF Written, Memory
  <2> QED BY <2>1, <2>2, <2>3, <2>5, <2>6 DEF Written, Memory
<1>4. CASE Retire
  <2>1. mem' = expect'
    BY <1>4, RetireMemory
  <2> QED BY <2>1 DEF Memory
<1>5. CASE UNCHANGED <<pc, mapped, mem, expect>>
  <2>1. Insn' = Insn
    BY <1>5 DEF Insn
  <2> QED BY <1>5, <2>1 DEF Written, Memory
<1> QED BY <1>1, <1>2, <1>3, <1>4, <1>5, StepKinds

\* A step of a store that does no byte.
LEMMA StoreKept ==
    ASSUME StoreDone, InAccess, UNCHANGED <<pc, mapped, mem>>, excused \subseteq excused',
           ~exit_request' => ~exit_request,
           \A b \in Bytes(Insn) : Done(b)' => Done(b)
    PROVE  StoreDone'
<1>1. Insn' = Insn
  BY DEF Insn
<1> QED BY <1>1 DEF StoreDone

\* A step within a call of the helper does none.
LEMMA StoreWithin ==
    ASSUME StoreDone, InAccess, UNCHANGED <<pc, mapped, mem>>, excused \subseteq excused',
           ~exit_request' => ~exit_request,
           frame'.at = frame.at, frame'.sub = frame.sub, phase' \notin {"check", "stored"}
    PROVE  StoreDone'
<1>1. \A b \in Bytes(Insn) : Done(b)' => Done(b)
  BY DEF Done
<1> QED BY <1>1, StoreKept

\* The bytes of a store are done one call of the helper after the other.
LEMMA StoreStep ==
    ASSUME TypeOK, Shape, Fresh, Written, Next, "kept" \in Rules
    PROVE  StoreDone'
<1> SUFFICES ASSUME pc' <= Len(Program), Insn'.op = "store", InAccess', ~exit_request'
             PROVE  StoreDone'
  BY DEF StoreDone
<1>1. CASE uc_emu_start
  BY <1>1 DEF uc_emu_start, InAccess
<1>2. CASE Begin
  <2>1. pc \in DOMAIN Program
    BY <1>2, ProgramAssumption DEF Begin, TypeOK
  <2>2. Insn.addr \in Nat /\ Insn.op = "store"
    BY <1>2, <2>1, InsnProps DEF Insn, Begin, where
  <2>3. frame'.sub = 0
    BY <1>2, <2>2, NoFrameProps DEF Begin
  <2>4. phase' = "lookup"
    BY <1>2, <2>2 DEF Begin, TypeOK, Insn
  <2> QED BY <2>3, <2>4 DEF StoreDone, Done
<1>3. CASE AtExit
  BY <1>3 DEF AtExit, Return, InAccess
<1>4. CASE Lookup
  <2>1. /\ phase = "lookup" /\ frame'.at = frame.at /\ frame'.sub = frame.sub
        /\ UNCHANGED <<pc, mapped, mem, excused, exit_request>>
    BY <1>4, LookupProps
  <2>2. phase' \in {"plain", "unmapped", "permission", "go"}
    BY <1>4, LookupProps
  <2> QED BY <2>1, <2>2, StoreWithin DEF InAccess, Written
<1>5. CASE GuestFault
  BY <1>5 DEF GuestFault, InAccess
<1>6. CASE Callback
  <2>1. UNCHANGED <<pc, step, phase, excused>> /\ InAccess /\ Walking
    BY <1>6, CallbackProps
  <2>2. frame'.at = frame.at /\ frame'.sub = frame.sub
    BY <1>6, CallbackFrame
  <2>3. PICK f : CallEffect(f)
    BY <1>6, CallbackProps, Zenon
  <2>4. ~exit_request
    BY <2>3 DEF CallEffect
  <2>5. \A b \in Bytes(Insn) : PageOf(b) \in mapped => PageOf(b) \in mapped' /\ mem'[b] = mem[b]
    <3>1. Bytes(Insn) \subseteq Byte
      BY <2>1, AccessInsn, AtInsn
    <3> QED BY <1>6, <3>1, CallbackMemory
  <2>6. Insn' = Insn /\ \A b \in Bytes(Insn) : Done(b)' => Done(b)
    BY <2>1, <2>2 DEF Done, Insn
  <2> QED BY <2>1, <2>4, <2>5, <2>6 DEF StoreDone, Written
<1>7. CASE AfterUnmapped
  <2>1. UnmappedOutcome
    BY <1>7, UnmappedProps
  <2>2. /\ phase = "unmapped" /\ frame'.at = frame.at /\ frame'.sub = frame.sub
        /\ UNCHANGED <<pc, mapped, mem, excused, exit_request>>
        /\ phase' \in {"permission", "go", "plain"}
    BY <2>1 DEF UnmappedOutcome
  <2> QED BY <2>2, StoreWithin DEF InAccess, Written
<1>8. CASE AfterPlain
  <2>1. /\ phase = "plain" /\ frame'.at = frame.at /\ frame'.sub = frame.sub
        /\ UNCHANGED <<pc, mapped, mem, excused, exit_request>>
        /\ phase' \in {"permission", "unmapped"}
    BY <1>8, PlainProps
  <2> QED BY <2>1, StoreWithin DEF InAccess, Written
<1>9. CASE Permission
  <2>1. /\ phase = "permission" /\ frame'.at = frame.at /\ frame'.sub = frame.sub
        /\ UNCHANGED <<pc, mapped, mem, excused, exit_request>>
        /\ phase' \in {"go", "prot"}
    BY <1>9, PermissionProps
  <2> QED BY <2>1, StoreWithin DEF InAccess, Written
<1>10. CASE AfterProt
  <2>1. ProtOutcome
    BY <1>10, ProtProps
  <2>2. /\ phase = "prot" /\ frame'.at = frame.at /\ frame'.sub = frame.sub
        /\ UNCHANGED <<pc, mapped, mem, exit_request>> /\ excused \subseteq excused'
        /\ phase' = "go"
    BY <2>1 DEF ProtOutcome
  <2> QED BY <2>2, StoreWithin DEF InAccess, Written
<1>11. CASE BeginSplit
  <2>1. /\ phase = "go" /\ phase' = "lookup" /\ frame.sub = 0
        /\ UNCHANGED <<pc, mapped, mem, excused, exit_request>>
    BY <1>11 DEF BeginSplit, Straddles, where, world, ghost
  <2>2. InAccess /\ frame \in Frame /\ pc \in DOMAIN Program
    BY <2>1 DEF InAccess, TypeOK, Shape
  <2>3. Insn.addr \in Nat
    BY <2>2, InsnProps, Zenon DEF Insn
  <2> DEFINE g == [frame EXCEPT !.old = size_recur_mem]
  <2>4. g \in Frame
    BY <2>2, Zenon DEF Frame, TypeOK
  <2>5. frame' = CallFor(1, g)
    BY <1>11 DEF BeginSplit
  <2> HIDE DEF g
  <2>6. frame'.at = Insn.addr
    <3>1. frame'.at = Insn.addr + 1 - 1
      BY <2>2, <2>4, <2>5, CallProps
    <3> QED BY <2>3, <3>1
  <2>7. \A b \in Bytes(Insn) : ~Done(b)'
    <3>1. \A b \in Bytes(Insn) : ~(b < Insn.addr)
      BY <2>2, InsnProps DEF Bytes, Insn
    <3> QED BY <2>1, <2>6, <3>1 DEF Done
  <2> QED BY <2>1, <2>2, <2>7, StoreKept DEF Written
<1>12. CASE Load
  <2>1. InAccess /\ kind = "load" /\ Insn.op = "store"
    BY <1>12 DEF Load, InAccess, where, Insn
  <2> QED BY <2>1, AccessInsn
<1>13. CASE Fetch
  <2>1. InAccess /\ kind = "fetch" /\ Insn.op = "store"
    BY <1>13 DEF Fetch, InAccess, Insn
  <2> QED BY <2>1, AccessInsn
<1>14. CASE Store
  <2>1. /\ InAccess /\ phase = "go" /\ kind = "store" /\ ~Straddles /\ phase' = "stored"
        /\ UNCHANGED <<mapped, pc, frame, exit_request, excused>> /\ frame.at \in Bytes(Insn)
    BY <1>14, StoreProps
  <2>2. Insn' = Insn /\ Insn.op = "store" /\ pc \in DOMAIN Program /\ pc <= Len(Program)
    BY <2>1, AccessInsn DEF Insn
  <2>3. Bytes(Insn) \subseteq Byte /\ Byte \subseteq Nat
    BY <2>2, AtInsn
  <2>4. \A b \in Bytes(Insn) : mem'[b] =
           IF ~frame.discard /\ b \in (IF frame.sub = 0 THEN Bytes(Insn) ELSE {frame.at})
           THEN Insn.val ELSE mem[b]
    BY <1>14, <2>2, <2>3, StoreProps, Zenon
  <2>5. P \in mapped /\ (frame.discard => P \in excused)
    BY <2>1 DEF Fresh
  <2>6. CASE frame.sub = 0
    <3>1. \A b \in Bytes(Insn) : PageOf(b) = P
      BY <2>1, <2>2, <2>6, ProgramAssumption, Zenon DEF Straddles, Split, Insn, P
    <3>2. \A b \in Bytes(Insn) : PageOf(b) \in mapped /\ (PageOf(b) \notin excused => mem'[b] = Insn.val)
      BY <2>4, <2>5, <2>6, <3>1
    <3> QED BY <2>1, <2>2, <3>2 DEF StoreDone
  <2>7. CASE frame.sub # 0
    <3>1. SUFFICES ASSUME NEW b \in Bytes(Insn), b <= frame.at
                   PROVE  PageOf(b) \in mapped /\ (PageOf(b) \notin excused => mem'[b] = Insn.val)
      <4>1. \A b \in Bytes(Insn) : b < frame.at => b <= frame.at
        <5>1. \A b \in Bytes(Insn) : b \in Nat
          BY <2>3, Zenon
        <5> QED BY <2>1, <5>1
      <4>2. \A b \in Bytes(Insn) : Done(b)' => b <= frame.at
        BY <2>1, <2>7, <4>1 DEF Done
      <4> QED BY <2>1, <2>2, <3>1, <4>2 DEF StoreDone
    <3>2. CASE b = frame.at
      BY <2>4, <2>5, <2>7, <3>2 DEF P
    <3>3. CASE b # frame.at
      <4>1. b < frame.at
        <5>1. b \in Nat /\ frame.at \in Nat
          BY <2>1, <2>3, Zenon
        <5> QED BY <3>1, <3>3, <5>1
      <4>2. Done(b)
        BY <2>7, <4>1 DEF Done
      <4>3. PageOf(b) \in mapped /\ (PageOf(b) \notin excused => mem[b] = Insn.val)
        BY <2>1, <2>2, <4>2 DEF StoreDone, Written
      <4>4. mem'[b] = mem[b]
        BY <2>4, <2>7, <3>3
      <4> QED BY <4>3, <4>4
    <3> QED BY <3>2, <3>3
  <2> QED BY <2>6, <2>7
<1>15. CASE Stored
  <2>1. phase = "stored" /\ Finish /\ UNCHANGED <<pc, step, mapped, mem, excused, exit_request>>
    BY <1>15 DEF Stored, where, world, ghost
  <2>2. InAccess /\ kind = "store" /\ frame \in Frame /\ pc \in DOMAIN Program
    BY <2>1 DEF Shape, InAccess, TypeOK
  <2>3. FinishOutcome
    BY <2>1, <2>2, FinishProps
  <2>4. /\ Insn.addr \in Nat /\ Insn.size \in Nat /\ Parts = Insn.size
        /\ \A b \in Bytes(Insn) : b \in Nat /\ b <= Insn.addr + Insn.size - 1
    BY <2>2, InsnProps DEF Bytes, Insn, Parts
  <2>5. CASE /\ frame.sub \in 1..Parts - 1 /\ frame.sub + 1 \in 1..Parts
             /\ frame' = CallFor(frame.sub + 1, frame) /\ phase' = "lookup"
    <3>1. frame'.sub = frame.sub + 1 /\ frame'.at = Insn.addr + frame'.sub - 1
      BY <2>2, <2>5, CallShape, Zenon
    <3>2. frame.sub # 0 /\ frame.sub \in Nat
      BY <2>2, <2>5 DEF Frame
    <3>3. frame.at = Insn.addr + frame.sub - 1
      BY <2>2, <3>2 DEF Shape
    <3>4. \A b \in Bytes(Insn) : b < frame'.at => b <= frame.at
      BY <2>4, <3>1, <3>2, <3>3
    <3>5. \A b \in Bytes(Insn) : Done(b)' => Done(b)
      BY <2>1, <2>5, <3>4 DEF Done
    <3> QED BY <2>1, <2>2, <3>5, StoreKept DEF Written
  <2>6. CASE frame.sub = 0 \/ frame.sub = Parts
    <3>1. \A b \in Bytes(Insn) : Done(b)
      <4>1. CASE frame.sub = 0
        BY <2>1, <4>1 DEF Done
      <4>2. CASE frame.sub # 0
        <5>1. frame.at = Insn.addr + Insn.size - 1
          <6>1. frame.at = Insn.addr + frame.sub - 1
            BY <2>2, <4>2 DEF Shape
          <6> QED BY <2>4, <2>6, <4>2, <6>1
        <5> QED BY <2>1, <2>4, <5>1 DEF Done
      <4> QED BY <4>1, <4>2
    <3> QED BY <2>1, <2>2, <3>1, StoreKept DEF Written
  <2> QED BY <2>3, <2>5, <2>6 DEF FinishOutcome
<1>16. CASE AfterRead
  <2>1. InAccess /\ kind = "load" /\ Insn.op = "store"
    BY <1>16 DEF AfterRead, InAccess, where, Insn, Shape
  <2> QED BY <2>1, AccessInsn
<1>17. CASE check_exit_request
  <2>1. phase = "check" /\ InAccess
    BY <1>17 DEF check_exit_request, InAccess
  <2>2. step < Len(Kinds(Insn.op)) /\ Insn.op = "store"
    BY <1>17 DEF check_exit_request, InAccess, Insn
  <2>3. step = 1 /\ Len(Kinds(Insn.op)) = 1
    BY <2>1, <2>2, AccessInsn, Zenon
  <2> DEFINE n == Len(Kinds(Insn.op))
  <2>4. step < n /\ step = 1 /\ n = 1
    BY <2>2, <2>3
  <2> HIDE DEF n
  <2> QED BY <2>4
<1>18. CASE tcg_cpu_exec
  BY <1>18 DEF tcg_cpu_exec, Return, InAccess
<1> QED BY <1>1, <1>2, <1>3, <1>4, <1>5, <1>6, <1>7, <1>8, <1>9, <1>10, <1>11, <1>12, <1>13, <1>14,
           <1>15, <1>16, <1>17, <1>18 DEF Next

IncDone == IncLoad /\ IncMem /\ IncStore

\* A step out of the access of a read-modify-write instruction.
LEMMA IncOut ==
    ASSUME IncDone, UNCHANGED <<pc, mem, expect>>, ~InAccess',
           ~(InAccess /\ step = 2 /\ phase \in {"stored", "check"} /\ ~exit_request)
    PROVE  IncDone'
<1>1. Insn' = Insn /\ (Inc' <=> Inc)
  BY DEF Insn, Inc
<1> QED BY <1>1 DEF IncDone, IncLoad, IncMem, IncStore

\* A step on the way to memory.
LEMMA IncWithin ==
    ASSUME IncDone, Inc, InAccess, UNCHANGED <<pc, step, mem, expect, mapped, tmp>>,
           phase \notin {"after", "stored", "check"}, phase' \notin {"after", "stored", "check"},
           step = 2 => /\ phase' \in {"plain", "permission", "prot", "go"}
                       /\ phase' = "plain" => frame'.mr
                       /\ phase' # "go" => excused' = {}
                       /\ excused' \subseteq {PageOf(Insn.addr)}
                       /\ exit_request' = exit_request
                       /\ phase' = "go" => (frame'.discard <=> excused' # {})
    PROVE  IncDone'
<1>1. Insn' = Insn /\ (Inc' <=> Inc)
  BY DEF Insn, Inc
<1>2. IncMem'
  BY <1>1 DEF IncDone, IncMem
<1>3. IncLoad'
  BY <1>1 DEF IncLoad
<1>4. IncStore'
  BY <1>1, Zenon DEF IncDone, IncStore
<1> QED BY <1>2, <1>3, <1>4 DEF IncDone

\* A read-modify-write instruction, step by step.
LEMMA IncStep ==
    ASSUME TypeOK, Shape, Fresh, Written, Next, "kept" \in Rules, "nostop" \in Rules
    PROVE  IncDone'
<1> SUFFICES ASSUME Inc' PROVE IncDone'
  BY DEF IncDone, IncLoad, IncMem, IncStore
<1>0. IncDone
  BY DEF IncDone, Written
<1>1. ASSUME Inc, InAccess
      PROVE  /\ frame.sub = 0 /\ frame.at = Insn.addr /\ P = PageOf(Insn.addr)
             /\ step \in {1, 2} /\ (step = 1 <=> kind = "load") /\ (step = 2 <=> kind = "store")
             /\ Len(Kinds(Insn.op)) = 2 /\ pc \in DOMAIN Program
             /\ Insn.addr \in Byte /\ Insn.addr \in Bytes(Insn) /\ ~Split(Insn)
             /\ Bytes(Insn) = {Insn.addr}
  <2>1. pc <= Len(Program) /\ Insn.op = "inc"
    BY <1>1 DEF Inc
  <2> QED BY <1>1, <2>1, AccessInsn, AtInsn
<1>2. pc' = pc => Inc /\ Insn' = Insn /\ pc <= Len(Program)
  BY DEF Inc, Insn
<1>3. CASE uc_emu_start
  <2>1. /\ pc' = (IF pc > Len(Program) THEN 1 ELSE pc) /\ UNCHANGED <<mem, expect>>
        /\ phase = "idle" /\ phase' = "next"
    BY <1>3 DEF uc_emu_start, world, ghost
  <2>2. CASE pc > Len(Program)
    <3>1. mem' = expect'
      BY <2>1, <2>2 DEF Written, Memory
    <3> QED BY <2>1, <3>1 DEF IncDone, IncLoad, IncMem, IncStore, InAccess
  <2>3. CASE ~(pc > Len(Program))
    <3>1. pc' = pc
      BY <2>1, <2>3
    <3> QED BY <1>0, <2>1, <3>1, IncOut DEF InAccess
  <2> QED BY <2>2, <2>3
<1>4. CASE Begin
  <2>1. phase = "next" /\ UNCHANGED <<pc, step, mem, expect>> /\ step = 1
    BY <1>4 DEF Begin, where, world, Shape
  <2>2. phase' = "lookup"
    <3>1. pc \notin cached
      BY <1>2, <2>1 DEF TypeOK, Inc, Insn
    <3> QED BY <1>4, <3>1 DEF Begin
  <2>3. mem[Insn.addr] = expect[Insn.addr]
    BY <1>0, <1>2, <2>1 DEF IncDone, IncMem, InAccess
  <2> QED BY <1>2, <2>1, <2>2, <2>3 DEF IncDone, IncLoad, IncMem, IncStore
<1>5. CASE AtExit
  <2>1. pc' = pc /\ pc > Len(Program)
    BY <1>5 DEF AtExit, where
  <2> QED BY <1>2, <2>1, ProgramAssumption DEF TypeOK
<1>6. CASE Lookup
  <2>1. /\ phase = "lookup" /\ UNCHANGED <<pc, step, mem, expect, mapped, tmp, excused, exit_request>>
        /\ frame'.mr <=> P \in mapped
    BY <1>6, LookupProps
  <2>2. InAccess /\ Inc
    BY <1>2, <2>1 DEF InAccess
  <2>3. phase' \in {"plain", "permission", "go", "unmapped"}
    BY <1>6, LookupProps
  <2>4. ASSUME step = 2
        PROVE  phase' \in {"plain", "permission"} /\ frame'.mr /\ excused = {}
    <3>1. PageOf(Insn.addr) \in mapped /\ excused = {}
      BY <1>0, <2>1, <2>2, <2>4 DEF IncDone, IncStore
    <3>2. frame'.mr /\ kind = "store"
      BY <1>1, <2>1, <2>2, <2>4, <3>1, Zenon
    <3>3. phase' \in {"plain", "permission"}
      BY <1>6, <3>2, LookupProps
    <3> QED BY <3>1, <3>2, <3>3
  <2>5. phase' \notin {"after", "stored", "check"}
    BY <2>3
  <2>6. step = 2 => phase' # "go" /\ excused' = {} /\ phase' \in {"plain", "permission", "prot", "go"}
    BY <2>1, <2>4
  <2> QED BY <1>0, <2>1, <2>2, <2>4, <2>5, <2>6, IncWithin
<1>7. CASE GuestFault
  <2>1. UNCHANGED <<pc, mem, expect>> /\ phase' \in {"loop", "next"} /\ phase \in {"lookup", "go"}
    BY <1>7 DEF GuestFault
  <2> QED BY <1>0, <2>1, IncOut DEF InAccess
<1>8. CASE Callback
  <2>1. UNCHANGED <<pc, step, phase, excused, tmp>> /\ InAccess /\ Walking
    BY <1>8, CallbackProps
  <2>2. frame'.mr = frame.mr /\ frame'.discard = frame.discard
    BY <1>8, CallbackFrame
  <2>3. PICK f : CallEffect(f)
    BY <1>8, CallbackProps, Zenon
  <2>4. Inc /\ Insn' = Insn
    BY <1>2, <2>1
  <2>5. PICK Z \in SUBSET Page :
           /\ \A b \in Byte : mem'[b] = (IF PageOf(b) \in Z THEN 0 ELSE mem[b])
           /\ \A b \in Byte : expect'[b] = (IF PageOf(b) \in Z THEN 0 ELSE expect[b])
           /\ \A b \in Bytes(Insn) : PageOf(b) \in mapped => PageOf(b) \notin Z
           /\ \A b \in Bytes(Insn) : PageOf(b) \in mapped => PageOf(b) \in mapped'
    BY <1>8, CallbackMemory, Zenon
  <2>6. /\ mem[Insn.addr] = expect[Insn.addr] => mem'[Insn.addr] = expect'[Insn.addr]
        /\ PageOf(Insn.addr) \in mapped => /\ PageOf(Insn.addr) \in mapped'
                                           /\ mem'[Insn.addr] = mem[Insn.addr]
                                           /\ expect'[Insn.addr] = expect[Insn.addr]
    <3>1. Insn.addr \in Byte /\ Insn.addr \in Bytes(Insn)
      BY <1>1, <2>1, <2>4, Zenon
    <3> QED BY <2>5, <3>1
  <2>7. ~exit_request' => ~exit_request
    BY <2>3, Zenon DEF CallEffect
  <2>8. step = 2 => exit_request' = exit_request
    BY <2>3, <2>4 DEF CallEffect, Inc
  <2>9. phase \in {"unmapped", "prot", "plain", "after"}
    BY <2>1 DEF Walking
  <2>10. mem[Insn.addr] = expect[Insn.addr]
    BY <1>0, <2>4, <2>9 DEF IncDone, IncMem
  <2>11. IncLoad'
    BY <1>0, <2>1, <2>4, <2>6, <2>7 DEF IncDone, IncLoad
  <2>12. IncMem'
    BY <2>4, <2>6, <2>10, Zenon DEF IncMem
  <2>13. IncStore'
    <3>1. CASE step = 2
      BY <1>0, <2>1, <2>2, <2>4, <2>6, <2>8, <2>9, <3>1, Zenon DEF IncDone, IncStore
    <3>2. CASE step # 2
      BY <2>1, <3>2, Zenon DEF IncStore
    <3> QED BY <3>1, <3>2
  <2> QED BY <2>11, <2>12, <2>13 DEF IncDone
<1>9. CASE AfterUnmapped
  <2>1. UnmappedOutcome
    BY <1>9, UnmappedProps
  <2>2. phase = "unmapped" /\ UNCHANGED <<pc, step, mem, expect, mapped, tmp>>
    BY <2>1, Zenon DEF UnmappedOutcome
  <2>3. InAccess /\ Inc
    BY <1>2, <2>2 DEF InAccess
  <2>4. step # 2
    BY <1>0, <2>2, <2>3 DEF IncDone, IncStore
  <2>5. kind # "store"
    BY <1>1, <2>3, <2>4
  <2>6. phase' \in {"loop", "permission", "go", "plain"}
    BY <2>1, <2>5 DEF UnmappedOutcome
  <2>7. CASE phase' = "loop"
    BY <1>0, <2>2, <2>7, IncOut DEF InAccess
  <2>8. CASE phase' # "loop"
    <3>1. phase' \notin {"after", "stored", "check"}
      BY <2>6
    <3> QED BY <1>0, <2>2, <2>3, <2>4, <3>1, IncWithin
  <2> QED BY <2>7, <2>8
<1>10. CASE AfterPlain
  <2>1. /\ phase = "plain" /\ phase' = (IF frame.mr THEN "permission" ELSE "unmapped")
        /\ UNCHANGED <<pc, step, mem, expect, mapped, tmp, excused, exit_request>>
    BY <1>10, PlainProps
  <2>2. InAccess /\ Inc
    BY <1>2, <2>1 DEF InAccess
  <2>3. step = 2 => frame.mr /\ excused = {}
    BY <1>0, <2>1, <2>2 DEF IncDone, IncStore
  <2>4. /\ phase' \notin {"after", "stored", "check"}
        /\ step = 2 => phase' = "permission" /\ excused' = {}
    BY <2>1, <2>3
  <2> QED BY <1>0, <2>1, <2>2, <2>4, IncWithin
<1>11. CASE Permission
  <2>1. /\ phase = "permission" /\ phase' = (IF Need(kind) \in perms[P] THEN "go" ELSE "prot")
        /\ UNCHANGED <<pc, step, mem, expect, mapped, tmp, excused, exit_request>>
        /\ frame'.discard = frame.discard
    BY <1>11, PermissionProps
  <2>2. InAccess /\ Inc
    BY <1>2, <2>1 DEF InAccess
  <2>3. step = 2 => kind = "store" /\ excused = {}
    BY <1>0, <1>1, <2>1, <2>2, Zenon DEF IncDone, IncStore
  <2>4. kind = "store" => (frame.discard <=> "w" \notin perms[P]) /\ Need(kind) = "w"
    BY <2>1, <2>2 DEF Fresh, Need
  <2>5. /\ phase' \notin {"after", "stored", "check"}
        /\ step = 2 => /\ phase' \in {"go", "prot"} /\ excused' = {}
                       /\ phase' = "go" => ~frame'.discard
    BY <2>1, <2>3, <2>4
  <2> QED BY <1>0, <2>1, <2>2, <2>5, IncWithin
<1>12. CASE AfterProt
  <2>1. ProtOutcome
    BY <1>12, ProtProps
  <2>2. phase = "prot" /\ UNCHANGED <<pc, step, mem, expect, mapped, tmp>>
    BY <2>1 DEF ProtOutcome
  <2>3. InAccess /\ Inc
    BY <1>2, <2>2 DEF InAccess
  <2>4. mem[Insn.addr] = expect[Insn.addr]
    BY <1>0, <2>2, <2>3 DEF IncDone, IncMem
  <2>5. step = 2 => kind = "store" /\ excused = {} /\ frame.discard /\ frame.hit /\ P = PageOf(Insn.addr)
    BY <1>0, <1>1, <2>2, <2>3, Zenon DEF IncDone, IncStore, Fresh
  <2>6. CASE /\ exit_request' = TRUE /\ phase' = (IF kind = "store" THEN "stored" ELSE "loop")
             /\ frame' = frame /\ excused' = excused
    <3>1. CASE step = 2
      <4>1. phase' = "stored"
        BY <2>5, <2>6, <3>1
      <4>2. IncLoad' /\ IncMem'
        BY <1>2, <2>2, <2>4, <2>6, Zenon DEF IncLoad, IncMem
      <4>3. IncStore'
        BY <1>0, <1>2, <2>2, <2>3, <2>5, <2>6, <3>1, <4>1, Zenon DEF IncDone, IncStore
      <4> QED BY <4>2, <4>3 DEF IncDone
    <3>2. CASE step # 2
      <4>1. phase' = "loop"
        BY <1>1, <2>3, <2>6, <3>2
      <4> QED BY <1>0, <2>2, <4>1, IncOut DEF InAccess
    <3> QED BY <3>1, <3>2
  <2>7. CASE /\ phase' = "go" /\ exit_request' = exit_request /\ excused' = excused \cup {P}
             /\ frame.hit => frame' = frame
    <3>1. step = 2 => /\ frame'.discard /\ excused' # {} /\ excused' \subseteq {PageOf(Insn.addr)}
      BY <2>5, <2>7
    <3> QED BY <1>0, <2>2, <2>3, <2>7, <3>1, IncWithin
  <2> QED BY <2>1, <2>6, <2>7, Zenon DEF ProtOutcome
<1>13. CASE BeginSplit
  <2>1. phase = "go" /\ Split(Insn) /\ pc' = pc
    BY <1>13 DEF BeginSplit, Straddles, where
  <2> QED BY <1>1, <1>2, <2>1 DEF InAccess
<1>14. CASE Load
  <2>1. /\ phase = "go" /\ kind = "load" /\ Finish
        /\ tmp' = (IF frame.hit THEN mem[frame.at] ELSE 0)
        /\ UNCHANGED <<pc, step, mem, expect, mapped, exit_request>>
    BY <1>14, Zenon DEF Load, where, world, ghost
  <2>2. InAccess /\ Inc
    BY <1>2, <2>1 DEF InAccess
  <2>3. frame.sub = 0 /\ frame.at = Insn.addr /\ P = PageOf(Insn.addr) /\ step = 1
    BY <1>1, <2>1, <2>2
  <2>4. frame.hit /\ P \in mapped
    BY <2>1, <2>2 DEF Fresh
  <2>5. mem[Insn.addr] = expect[Insn.addr]
    BY <1>0, <2>1, <2>2 DEF IncDone, IncMem
  <2> QED BY <1>2, <2>1, <2>3, <2>4, <2>5 DEF IncDone, IncLoad, IncMem, IncStore
<1>15. CASE Fetch
  <2>1. phase = "go" /\ kind = "fetch" /\ pc' = pc
    BY <1>15 DEF Fetch
  <2> QED BY <1>1, <1>2, <2>1 DEF InAccess
<1>16. CASE Store
  <2>1. /\ InAccess /\ phase = "go" /\ kind = "store" /\ phase' = "stored"
        /\ UNCHANGED <<mapped, pc, step, frame, tmp, exit_request, excused, expect>>
    BY <1>16, StoreProps
  <2>2. Inc /\ Insn' = Insn
    BY <1>2, <2>1
  <2>3. frame.sub = 0 /\ step = 2 /\ Insn.addr \in Byte /\ Insn.addr \in Bytes(Insn)
    BY <1>1, <2>1, <2>2
  <2>4. mem'[Insn.addr] = IF ~frame.discard THEN tmp + 1 ELSE mem[Insn.addr]
    BY <1>16, <2>2, <2>3, StoreProps DEF Inc
  <2>5. mem[Insn.addr] = expect[Insn.addr]
    BY <1>0, <2>1, <2>2 DEF IncDone, IncMem
  <2>6. /\ tmp = expect[Insn.addr] /\ ~exit_request /\ (frame.discard <=> excused # {})
        /\ PageOf(Insn.addr) \in mapped /\ excused \subseteq {PageOf(Insn.addr)}
    BY <1>0, <2>1, <2>2, <2>3 DEF IncDone, IncStore
  <2>7. mem'[Insn.addr] = IF excused # {} THEN expect[Insn.addr] ELSE expect[Insn.addr] + 1
    BY <2>4, <2>5, <2>6
  <2>8. IncLoad'
    BY <2>1 DEF IncLoad
  <2>9. IncMem'
    BY <2>1, <2>3, <2>6 DEF IncMem, InAccess
  <2>10. IncStore'
    BY <2>1, <2>2, <2>6, <2>7 DEF IncStore
  <2> QED BY <2>8, <2>9, <2>10 DEF IncDone
<1>17. CASE Stored
  <2>1. phase = "stored" /\ Finish /\ UNCHANGED <<pc, step, mapped, mem, expect, tmp, excused, exit_request>>
    BY <1>17 DEF Stored, where, world, ghost
  <2>2. InAccess /\ Inc /\ kind = "store"
    BY <1>2, <2>1 DEF InAccess, Shape
  <2>3. frame.sub = 0 /\ step = 2
    BY <1>1, <2>2
  <2>4. phase' = "check"
    BY <2>1, <2>2, <2>3, FinishProps DEF FinishOutcome
  <2>5. IncLoad'
    BY <2>1, <2>3 DEF IncLoad
  <2>6. IncMem'
    BY <1>0, <1>2, <2>1, <2>2, <2>3, <2>4 DEF IncDone, IncMem, InAccess
  <2>7. IncStore'
    BY <1>0, <1>2, <2>1, <2>2, <2>3, <2>4, Zenon DEF IncDone, IncStore
  <2> QED BY <2>5, <2>6, <2>7 DEF IncDone
<1>18. CASE AfterRead
  <2>1. /\ phase = "after" /\ phase' = "check"
        /\ UNCHANGED <<pc, step, mapped, mem, expect, tmp, excused, exit_request>>
    BY <1>18 DEF AfterRead, where, world, ghost, engine
  <2>2. InAccess /\ Inc /\ kind = "load"
    BY <1>2, <2>1 DEF InAccess, Shape
  <2>3. step = 1
    BY <1>1, <2>2
  <2> QED BY <1>0, <1>2, <2>1, <2>2, <2>3, Zenon DEF IncDone, IncLoad, IncMem, IncStore
<1>19. CASE check_exit_request
  <2>1. phase = "check" /\ UNCHANGED <<mapped, mem, tmp, exit_request>> /\ InAccess
    BY <1>19 DEF check_exit_request, world, engine, InAccess
  <2>2. CASE exit_request /\ phase' = "loop" /\ UNCHANGED <<pc, expect>>
    BY <1>0, <2>1, <2>2, IncOut DEF InAccess
  <2>3. CASE /\ ~exit_request /\ step < Len(Kinds(Insn.op)) /\ step' = step + 1 /\ phase' = "lookup"
             /\ excused' = {} /\ UNCHANGED <<pc, expect>>
    <3>1. Inc /\ step = 1
      <4>1. Inc
        BY <1>2, <2>3
      <4>2. step \in {1, 2} /\ Len(Kinds(Insn.op)) = 2
        BY <1>1, <2>1, <4>1
      <4>3. step # 2
        <5> DEFINE n == Len(Kinds(Insn.op))
        <5>1. step < n /\ n = 2
          BY <2>3, <4>2
        <5> HIDE DEF n
        <5> QED BY <5>1
      <4> QED BY <4>1, <4>2, <4>3
    <3>2. tmp = mem[Insn.addr] /\ PageOf(Insn.addr) \in mapped /\ mem[Insn.addr] = expect[Insn.addr]
      BY <1>0, <2>1, <2>3, <3>1 DEF IncDone, IncLoad, IncMem
    <3>3. IncLoad' /\ IncMem'
      BY <1>2, <2>1, <2>3, <3>2 DEF IncLoad, IncMem
    <3>4. IncStore'
      BY <1>2, <2>1, <2>3, <3>2 DEF IncStore
    <3> QED BY <3>3, <3>4 DEF IncDone
  <2>4. CASE Retire
    <3>1. mem' = expect' /\ phase' = "next"
      BY <2>4, RetireMemory DEF Retire
    <3> QED BY <3>1 DEF IncDone, IncLoad, IncMem, IncStore, InAccess
  <2> QED BY <1>19, <2>2, <2>3, <2>4 DEF check_exit_request, Retire, where, ghost, world
<1>20. CASE tcg_cpu_exec
  <2>1. phase = "loop" /\ UNCHANGED <<pc, mem, expect>> /\ phase' \in {"idle", "next"}
    BY <1>20 DEF tcg_cpu_exec, Return, world
  <2> QED BY <1>0, <2>1, IncOut DEF InAccess
<1> QED BY <1>3, <1>4, <1>5, <1>6, <1>7, <1>8, <1>9, <1>10, <1>11, <1>12, <1>13, <1>14,
           <1>15, <1>16, <1>17, <1>18, <1>19, <1>20 DEF Next

-----------------------------------------------------------------------------
(* The theorems *)

\* The initial states.
LEMMA InitialEffect ==
    ASSUME Init
    PROVE  Fresh /\ Allowed /\ Written
<1>1. ~InAccess /\ mem = expect
  BY DEF Init, InAccess
<1> QED BY <1>1, Zenon DEF Fresh, Allowed, Written, Memory, StoreDone, IncLoad, IncMem, IncStore

\* Under these rules every state of the specification has a fresh entry.
LEMMA FreshInductive ==
    ASSUME "kept" \in Rules, "still" \in Rules
    PROVE  Spec => []Fresh
<1>1. Init => Fresh
  BY InitialEffect
<1>2. ASSUME TypeOK, Shape, Fresh, [Next]_vars PROVE Fresh'
  <2>1. CASE Next
    BY <1>2, <2>1, FreshStep
  <2>2. CASE UNCHANGED vars
    <3>1. kind' = kind /\ P' = P /\ (InAccess' <=> InAccess)
      BY <2>2, Stutter, SameInsn DEF P, InAccess
    <3>2. UNCHANGED <<phase, frame, mapped, perms, excused>>
      BY <2>2, Stutter
    <3> QED BY <1>2, <3>1, <3>2, Zenon DEF Fresh
  <2> QED BY <1>2, <2>1, <2>2
<1> QED BY <1>1, <1>2, ShapeInductive, PTL DEF Spec

\* load_helper and store_helper go to memory through a TLB entry and a region that
\* are still the page's, if no callback unmaps a page of the access it is called for
\* and the callbacks the helpers do not look behind flush no TLB.
THEOREM EntriesAreLive ==
    ASSUME "kept" \in Rules, "still" \in Rules
    PROVE  Spec => []EntryLive
<1>1. Fresh => EntryLive
  BY Zenon DEF Fresh, EntryLive, InAccess
<1> QED BY <1>1, FreshInductive, PTL

\* Memory is reached with the permission the access needs, or because a PROT
\* callback let the access through, in every call of the helpers but the second of a
\* split load.
THEOREM AccessesAreChecked ==
    ASSUME "kept" \in Rules, "resident" \in Rules
    PROVE  Spec => []Checked
<1>1. Init => Allowed
  BY InitialEffect
<1>2. ASSUME TypeOK, Shape, Recursion, Allowed, [Next]_vars PROVE Allowed'
  <2>1. CASE Next
    BY <1>2, <2>1, AllowedStep
  <2>2. CASE UNCHANGED vars
    <3>1. kind' = kind /\ P' = P /\ (InAccess' <=> InAccess)
      BY <2>2, Stutter, SameInsn DEF P, InAccess
    <3>2. UNCHANGED <<phase, frame, mapped, perms, excused>>
      BY <2>2, Stutter
    <3> QED BY <1>2, <3>1, <3>2, Zenon DEF Allowed, Checked
  <2> QED BY <1>2, <2>1, <2>2
<1>3. Allowed => Checked
  BY DEF Allowed, Checked, InAccess
<1> QED BY <1>1, <1>2, <1>3, ShapeInductive, RecursionInductive, PTL DEF Spec

\* Over stops, errors, faults and retries, memory between instructions holds what the
\* instructions that retired wrote, each applied once, and at most some bytes of the
\* store that pc is at, with its value.
THEOREM InstructionsApplyOnce ==
    ASSUME "kept" \in Rules, "still" \in Rules, "nostop" \in Rules
    PROVE  Spec => []AppliedOnce
<1>1. Init => Written
  BY InitialEffect
<1>2. ASSUME TypeOK, Shape, Fresh, Written, [Next]_vars PROVE Written'
  <2>1. CASE Next
    <3>1. Memory' /\ StoreDone' /\ IncDone'
      BY <1>2, <2>1, MemoryStep, StoreStep, IncStep
    <3> QED BY <3>1 DEF Written, IncDone
  <2>2. CASE UNCHANGED vars
    <3>1. Insn' = Insn /\ (Inc' <=> Inc) /\ (InAccess' <=> InAccess)
      BY <2>2, Stutter DEF Insn, Inc, InAccess
    <3>2. Memory' /\ StoreDone'
      BY <1>2, <2>2, <3>1, Stutter, Zenon DEF Written, Memory, StoreDone, Done
    <3>3. UNCHANGED <<phase, frame, mapped, mem, expect, excused, exit_request, tmp, pc, step>>
      BY <2>2, Stutter
    <3>4. IncLoad' /\ IncMem' /\ IncStore'
      BY <1>2, <3>1, <3>3, Zenon DEF Written, IncLoad, IncMem, IncStore
    <3> QED BY <3>2, <3>4 DEF Written
  <2> QED BY <1>2, <2>1, <2>2
<1>3. ASSUME TypeOK, Written PROVE AppliedOnce
  <2> SUFFICES ASSUME phase \in {"idle", "next"}, NEW b \in Byte
               PROVE  \/ mem[b] = expect[b]
                      \/ /\ pc <= Len(Program) /\ b \in Bytes(Insn)
                         /\ Insn.op = "store" /\ mem[b] = Insn.val
    BY Zenon DEF AppliedOnce
  <2>1. pc > Len(Program) \/ pc <= Len(Program)
    BY <1>3, ProgramAssumption DEF TypeOK
  <2>2. CASE pc > Len(Program)
    BY <1>3, <2>2 DEF Written, Memory
  <2>3. CASE pc <= Len(Program)
    <3>1. /\ Insn.op \in {"load", "store", "fetch", "inc"}
          /\ Insn.op = "inc" => Bytes(Insn) = {Insn.addr}
      BY <1>3, <2>3, AtInsn
    <3>2. CASE b \notin Bytes(Insn) \/ Insn.op \in {"load", "fetch"}
      BY <1>3, <2>3, <3>2 DEF Written, Memory
    <3>3. CASE b \in Bytes(Insn) /\ Insn.op = "inc"
      BY <1>3, <2>3, <3>1, <3>3 DEF Written, IncMem, Inc, InAccess
    <3>4. CASE b \in Bytes(Insn) /\ Insn.op = "store"
      BY <1>3, <2>3, <3>4 DEF Written, Memory
    <3> QED BY <2>3, <3>1, <3>2, <3>3, <3>4
  <2> QED BY <2>1, <2>2, <2>3, Zenon
<1> QED BY <1>1, <1>2, <1>3, ShapeInductive, FreshInductive, PTL DEF Spec
=============================================================================
