-------------------------- MODULE EmuControlProofs --------------------------
(***************************************************************************)
(* Safety of EmuControl for any number of timer threads, nesting levels    *)
(* and counts.  Every step of the engine replaces the innermost frame,     *)
(* pushes one or pops one, and the frames below it wait in a callback; the *)
(* invariants are therefore about the innermost frame (Top) and, more      *)
(* weakly, about the waiting ones.                                         *)
(***************************************************************************)
EXTENDS EmuControl, SequenceTheorems, TLAPS

\* The frames below the innermost one.
Outer == 1 .. Len(frames) - 1

\* A step that replaces the innermost frame.
Kept ==
    /\ frames # <<>> /\ frames' # <<>> /\ Len(frames') = Len(frames)
    /\ \A n \in Outer : frames'[n] = frames[n]

\* One that removes it, and one that starts a call in a callback of it.
Popped ==
    /\ Len(frames') = Len(frames) - 1
    /\ \A n \in 1 .. Len(frames) - 1 : frames'[n] = frames[n]
    /\ frames' # <<>> => Len(frames) - 1 \in Outer /\ Top' = frames[Len(frames) - 1]
Pushed(f) ==
    /\ frames' # <<>> /\ Len(frames') = Len(frames) + 1 /\ Top' = f
    /\ \A n \in Outer : frames'[n] = frames[n]
    /\ frames # <<>> => frames'[Len(frames)] = [Top EXCEPT !.asked = "no"]

-----------------------------------------------------------------------------
(* The stack. *)

\* Replacing the innermost frame (every step inside tcg_cpu_exec) does that only.
LEMMA PutFrame ==
    ASSUME frames \in Seq(Frame), frames # <<>>, NEW f, Put(f)
    PROVE  Kept /\ Top' = f /\ (f \in Frame => frames' \in Seq(Frame))
<1>1. DEFINE S == Frame \cup {f}
<1>2. frames \in Seq(S) /\ Len(frames) \in 1 .. Len(frames) /\ f \in S
  OBVIOUS
<1> HIDE DEF S
<1>3. /\ frames' \in Seq(S) /\ Len(frames') = Len(frames)
      /\ \A n \in 1 .. Len(frames) : frames'[n] = IF n = Len(frames) THEN f ELSE frames[n]
  <2>1. frames' = [frames EXCEPT ![Len(frames)] = f]
    BY DEF Put
  <2>2. QED
    BY <1>2, <2>1, ExceptSeq
<1>4. frames' # <<>> /\ \A n \in Outer : frames'[n] = frames[n]
  BY <1>2, <1>3 DEF Outer
<1>5. Top' = f
  BY <1>2, <1>3 DEF Top
<1>6. ASSUME f \in Frame
      PROVE  frames' \in Seq(Frame)
  <2>1. S = Frame
    BY <1>6 DEF S
  <2>2. QED
    BY <1>3, <2>1
<1>7. QED
  BY <1>3, <1>4, <1>5, <1>6 DEF Kept

\* A frame that records what its callback asked for.
LEMMA AskFrame ==
    ASSUME frames \in Seq(Frame), frames # <<>>, NEW who \in {"no", "user", "count"},
           frames' = Asking(who)
    PROVE  Kept /\ Top' = [Top EXCEPT !.asked = who] /\ frames' \in Seq(Frame)
<1>1. Top \in Frame
  BY DEF Top
<1>2. [Top EXCEPT !.asked = who] \in Frame
  BY <1>1 DEF Frame
<1>3. Put([Top EXCEPT !.asked = who])
  BY DEF Asking, Put, Top
<1>4. QED
  BY <1>2, <1>3, PutFrame

\* uc_emu_start returns.
LEMMA PopFrame ==
    ASSUME frames \in Seq(Frame), frames # <<>>, frames' = SubSeq(frames, 1, Len(frames) - 1)
    PROVE  Popped /\ frames' \in Seq(Frame)
<1>1. Len(frames) \in Nat \ {0} /\ \A n \in 1 .. Len(frames) - 1 : frames[n] \in Frame
  OBVIOUS
<1>2. /\ frames' \in Seq(Frame) /\ Len(frames') = Len(frames) - 1
      /\ \A n \in 1 .. Len(frames) - 1 : frames'[n] = frames[n]
  <2>1. DEFINE k == Len(frames) - 1
  <2>2. k \in Nat /\ 1 \in Int /\ k \in Int /\ \A i \in 1 .. k : frames[i] \in Frame
    BY <1>1
  <2> HIDE DEF k
  <2>3. /\ SubSeq(frames, 1, k) \in Seq(Frame)
        /\ Len(SubSeq(frames, 1, k)) = IF 1 <= k THEN k - 1 + 1 ELSE 0
        /\ \A i \in 1 .. k - 1 + 1 : SubSeq(frames, 1, k)[i] = frames[1 + i - 1]
    BY <2>2, SubSeqProperties
  <2>4. k - 1 + 1 = k /\ \A i \in 1 .. k : 1 + i - 1 = i
    BY <2>2
  <2>5. frames' = SubSeq(frames, 1, k)
    BY DEF k
  <2>6. /\ frames' \in Seq(Frame) /\ Len(frames') = k
        /\ \A n \in 1 .. k : frames'[n] = frames[n]
    BY <2>2, <2>3, <2>4, <2>5
  <2>7. QED
    BY <2>6 DEF k
<1>3. ASSUME frames' # <<>>
      PROVE  Len(frames) - 1 \in Outer /\ Top' = frames[Len(frames) - 1]
  BY <1>1, <1>2, <1>3 DEF Outer, Top
<1>4. QED
  BY <1>2, <1>3 DEF Popped

\* uc_emu_start is called.
LEMMA PushFrame ==
    ASSUME frames \in Seq(Frame), NEW f \in Frame, frames' = Append(Asking("no"), f)
    PROVE  Pushed(f) /\ frames' \in Seq(Frame)
<1>1. DEFINE s == Asking("no")
<1>2. /\ s \in Seq(Frame) /\ Len(s) = Len(frames) /\ Len(frames) \in Nat
      /\ \A n \in Outer : s[n] = frames[n]
      /\ frames # <<>> => s[Len(frames)] = [Top EXCEPT !.asked = "no"]
  <2>1. CASE frames = <<>>
    BY <2>1 DEF Asking, Outer
  <2>2. CASE frames # <<>>
    <3>1. Top \in Frame /\ Len(frames) \in 1 .. Len(frames)
      BY <2>2 DEF Top
    <3>2. [Top EXCEPT !.asked = "no"] \in Frame
      BY <3>1 DEF Frame
    <3>3. s = [frames EXCEPT ![Len(frames)] = [Top EXCEPT !.asked = "no"]]
      BY <2>2 DEF Asking, Top
    <3>4. QED
      BY <3>1, <3>2, <3>3, ExceptSeq DEF Outer
  <2>3. QED
    BY <2>1, <2>2
<1> HIDE DEF s
<1>3. /\ frames' \in Seq(Frame) /\ frames' # <<>> /\ Len(frames') = Len(frames) + 1
      /\ \A n \in 1 .. Len(frames) : frames'[n] = s[n]
      /\ frames'[Len(frames) + 1] = f
  BY <1>2, AppendProperties DEF s
<1>4. Top' = f
  BY <1>3 DEF Top
<1>5. QED
  BY <1>2, <1>3, <1>4 DEF Pushed, Outer

-----------------------------------------------------------------------------
(* Levels: types, JumpTarget and DoneOutside. *)

\* Where a frame goes next is not a place with a level of its own, and it has a
\* flag to clear when it is clearing flags.
FrameOK(f) == f.next \notin {"probe", "join", "clear"} /\ (f.pc = "clear" => f.todo # <<>>)

Stack ==
    /\ Len(frames) <= MAX_NESTED
    /\ frames # <<>> => FrameOK(Top)
    /\ \A n \in Outer : frames[n].pc = "callback" /\ FrameOK(frames[n])

\* The inductive invariant of every configuration.
IInv == TypeOK /\ JumpTarget /\ DoneOutside /\ Stack

\* A step of the innermost frame that takes no level.
Stays ==
    /\ Kept /\ frames' \in Seq(Frame)
    /\ Top.pc \notin {"probe", "join"} /\ Top'.pc \notin {"probe", "join"}
    /\ FrameOK(Top')
    /\ UNCHANGED <<nested_level, emulation_done>>

\* The innermost frame of a stack that is not empty.
LEMMA TopFrame ==
    ASSUME IInv, frames # <<>>
    PROVE  Top \in Frame /\ FrameOK(Top) /\ Len(frames) \in Nat \ {0}
BY DEF IInv, TypeOK, Stack, Top

\* A step that takes no level keeps the levels right.
LEMMA StaysOK ==
    ASSUME IInv, Stays
    PROVE  JumpTarget' /\ DoneOutside' /\ Stack'
<1>1. JumpTarget' /\ DoneOutside'
  BY DEF IInv, Stays, Kept, JumpTarget, DoneOutside, At
<1>2. Stack'
  BY DEF IInv, Stays, Kept, Stack, Outer
<1>3. QED
  BY <1>1, <1>2

\* Replacing the innermost frame by f.
LEMMA PutStays ==
    ASSUME IInv, frames # <<>>, Top.pc \notin {"probe", "join"},
           NEW f \in Frame, f.pc \notin {"probe", "join"}, FrameOK(f),
           Put(f), UNCHANGED <<nested_level, emulation_done>>
    PROVE  Stays /\ Top' = f
<1>1. Kept /\ Top' = f /\ frames' \in Seq(Frame)
  BY PutFrame DEF IInv, TypeOK
<1>2. QED
  BY <1>1 DEF Stays

\* Going to another place.
LEMMA GotoStays ==
    ASSUME IInv, frames # <<>>, Top.pc \notin {"probe", "join"},
           NEW p \in Pc \ {"probe", "join", "clear"},
           Goto(p), UNCHANGED <<nested_level, emulation_done>>
    PROVE  Stays /\ Top' = [Top EXCEPT !.pc = p]
<1>1. Top \in Frame /\ FrameOK(Top)
  BY TopFrame
<1>2. [Top EXCEPT !.pc = p] \in Frame /\ FrameOK([Top EXCEPT !.pc = p])
  BY <1>1 DEF Frame, FrameOK
<1>3. [Top EXCEPT !.pc = p].pc = p
  BY <1>1 DEF Frame
<1>4. QED
  BY <1>2, <1>3, PutStays DEF Goto

\* Going there by way of clearing flags.
LEMMA ClearingStays ==
    ASSUME IInv, frames # <<>>, Top.pc \notin {"probe", "join"},
           NEW fs \in Seq(Flag), fs # <<>>, NEW p \in Pc \ {"probe", "join", "clear"},
           GotoClearing(fs, p), UNCHANGED <<nested_level, emulation_done>>
    PROVE  Stays /\ Top' = [Top EXCEPT !.pc = "clear", !.todo = fs, !.next = p]
<1>1. Top \in Frame /\ FrameOK(Top)
  BY TopFrame
<1>2. DEFINE f == [Top EXCEPT !.pc = "clear", !.todo = fs, !.next = p]
<1>3. f \in Frame /\ FrameOK(f) /\ f.pc = "clear"
  <2>1. "clear" \in Pc
    BY DEF Pc
  <2>2. f \in Frame /\ f.pc = "clear" /\ f.todo = fs /\ f.next = p
    BY <1>1, <2>1 DEF Frame
  <2>3. QED
    BY <2>2 DEF FrameOK
<1>4. Put(f)
  BY DEF GotoClearing
<1>5. QED
  BY <1>3, <1>4, PutStays

\* The steps inside a level, from the count hook to the verdict of tcg_cpu_exec.
Inside ==
    \/ EmuStartCount \/ EnableTimer \/ ClearFlag \/ ResumeAllVcpus \/ TcgCpuExec
    \/ HandleExceptionNone \/ HandleExceptionExit \/ HandleExceptionUncaught
    \/ HandleExceptionCaught \/ HandleExceptionDone
    \/ HandleInterruptHigh \/ HandleInterruptExit \/ TbFind \/ CheckExitRequest
    \/ CheckInDelaySlot \/ TraceNone \/ TraceSkip \/ TraceCount \/ TraceUser
    \/ TraceNoStop \/ TraceNoStopCall \/ TraceNoStopRevert \/ CallbackReturn
    \/ Insn \/ TbEnd \/ Halt \/ Fault \/ (\E e \in {"guest", "debug"} : RaiseException(e))
    \/ ExecReturned \/ Verdict

\* Every step of the engine between uc_emu_start's first assignment and the
\* verdict of tcg_cpu_exec is such a step.
LEMMA InsideStays ==
    ASSUME IInv, Inside
    PROVE  Stays
<1>0. {"return", "callback", "handled", "check", "revert", "exception", "trace", "tb",
       "high"} \subseteq Pc
  BY DEF Pc
<1>1. frames # <<>>
  BY DEF Inside, EmuStartCount, EnableTimer, ClearFlag, ResumeAllVcpus, TcgCpuExec,
         HandleExceptionNone, HandleExceptionExit, HandleExceptionUncaught,
         HandleExceptionCaught, HandleExceptionDone, HandleInterruptHigh,
         HandleInterruptExit, TbFind, CheckExitRequest, CheckInDelaySlot, TraceNone,
         TraceSkip, TraceCount, TraceUser, TraceNoStop, TraceNoStopCall,
         TraceNoStopRevert, CallbackReturn, InCallback, Insn, TbEnd, Ran, Halt, Fault,
         RaiseException, ExecReturned, Verdict, At
<1>2. Top \in Frame /\ FrameOK(Top)
  BY <1>1, TopFrame
<1>3. CASE EmuStartCount
  BY <1>1, <1>2, <1>3, GotoStays DEF EmuStartCount, At, Pc
<1>4. CASE EnableTimer
  BY <1>1, <1>2, <1>4, GotoStays DEF EnableTimer, At, Pc
<1>5. CASE ResumeAllVcpus
  BY <1>1, <1>2, <1>5, GotoStays DEF ResumeAllVcpus, At, Pc
<1>6. CASE HandleExceptionNone
  BY <1>1, <1>2, <1>6, GotoStays DEF HandleExceptionNone, At, Pc
<1>7. CASE HandleExceptionDone
  BY <1>1, <1>2, <1>7, GotoStays DEF HandleExceptionDone, At, Pc
<1>8. CASE HandleInterruptHigh
  BY <1>1, <1>2, <1>8, GotoStays DEF HandleInterruptHigh, At, Pc
<1>9. CASE HandleInterruptExit
  BY <1>1, <1>2, <1>9, GotoStays DEF HandleInterruptExit, At, Pc
<1>10. CASE TbFind
  BY <1>1, <1>2, <1>10, GotoStays DEF TbFind, At, Pc
<1>11. CASE CheckExitRequest
  BY <1>1, <1>2, <1>11, GotoStays DEF CheckExitRequest, At, Pc
<1>12. CASE CheckInDelaySlot
  BY <1>1, <1>2, <1>12, GotoStays DEF CheckInDelaySlot, At, Pc
<1>13. CASE TraceNone
  BY <1>1, <1>2, <1>13, GotoStays DEF TraceNone, At, Pc
<1>14. CASE TraceSkip
  BY <1>1, <1>2, <1>14, GotoStays DEF TraceSkip, At, Pc
<1>15. CASE Halt
  BY <1>1, <1>2, <1>15, GotoStays DEF Halt, At, Pc
<1>16. CASE ClearFlag
  <2>1. Top.pc = "clear" /\ Top.todo \in Seq(Flag) /\ Top.todo # <<>>
    BY <1>2, <1>16 DEF ClearFlag, At, Frame, FrameOK
  <2>2. CASE Tail(Top.todo) = <<>>
    <3>1. Top.next \in Pc \ {"probe", "join", "clear"}
      BY <1>2 DEF Frame, FrameOK
    <3>2. QED
      BY <1>1, <1>16, <2>1, <2>2, <3>1, GotoStays DEF ClearFlag
  <2>3. CASE Tail(Top.todo) # <<>>
    <3>1. DEFINE f == [Top EXCEPT !.todo = Tail(@)]
    <3>2. Tail(Top.todo) \in Seq(Flag)
      BY <2>1
    <3>3. f \in Frame /\ f.pc = "clear" /\ f.todo # <<>> /\ f.next = Top.next
      BY <1>2, <2>1, <2>3, <3>2 DEF Frame
    <3>4. FrameOK(f)
      BY <1>2, <3>3 DEF FrameOK
    <3>5. Put(f) /\ UNCHANGED <<nested_level, emulation_done>>
      BY <1>16, <2>3 DEF ClearFlag
    <3>6. QED
      BY <1>1, <2>1, <3>3, <3>4, <3>5, PutStays
  <2>4. QED
    BY <2>2, <2>3
<1>17. /\ <<"exit_request", "high">> \in Seq(Flag) /\ <<"stop_request", "exit_request">> \in Seq(Flag)
       /\ <<"stop_request", "exit_request", "high">> \in Seq(Flag)
  BY DEF Flag
<1>18. CASE TcgCpuExec
  BY <1>1, <1>17, <1>18, GotoStays, ClearingStays DEF TcgCpuExec, Finish, At, Pc
<1>19. CASE TraceNoStop
  BY <1>1, <1>17, <1>19, GotoStays, ClearingStays DEF TraceNoStop, Revert, At, Pc
<1>20. CASE TraceNoStopRevert
  BY <1>1, <1>17, <1>20, GotoStays, ClearingStays DEF TraceNoStopRevert, Revert, At, Pc
<1>21. CASE CallbackReturn
  <2>1. Top.next \in Pc \ {"probe", "join", "clear"}
    BY <1>2 DEF Frame, FrameOK
  <2>2. QED
    BY <1>1, <1>21, <2>1, GotoStays DEF CallbackReturn, InCallback, At
<1>22. CASE HandleExceptionExit
  <2>1. DEFINE f == [Top EXCEPT !.pc = "return", !.ret = exception]
  <2>2. f \in Frame /\ f.pc = "return" /\ f.next = Top.next
    BY <1>2, <1>0, <1>22 DEF Frame, HandleExceptionExit
  <2>3. FrameOK(f)
    BY <1>2, <2>2 DEF FrameOK
  <2>4. Put(f) /\ Top.pc \notin {"probe", "join"} /\ UNCHANGED <<nested_level, emulation_done>>
    BY <1>22 DEF HandleExceptionExit, At
  <2>5. QED
    BY <1>1, <2>2, <2>3, <2>4, PutStays
<1>23. CASE HandleExceptionUncaught
  <2>1. DEFINE f == [Top EXCEPT !.pc = "return", !.ret = "hlt"]
  <2>2. f \in Frame /\ f.pc = "return" /\ f.next = Top.next
    BY <1>2, <1>0 DEF Frame
  <2>3. FrameOK(f)
    BY <1>2, <2>2 DEF FrameOK
  <2>4. Put(f) /\ Top.pc \notin {"probe", "join"} /\ UNCHANGED <<nested_level, emulation_done>>
    BY <1>23 DEF HandleExceptionUncaught, At
  <2>5. QED
    BY <1>1, <2>2, <2>3, <2>4, PutStays
<1>24. CASE HandleExceptionCaught
  <2>1. DEFINE f == [Top EXCEPT !.pc = "callback", !.next = "handled", !.failed = FALSE]
  <2>2. f \in Frame /\ f.pc = "callback" /\ f.next = "handled"
    BY <1>2, <1>0 DEF Frame
  <2>3. FrameOK(f)
    BY <1>2, <2>2 DEF FrameOK
  <2>4. Put(f) /\ Top.pc \notin {"probe", "join"} /\ UNCHANGED <<nested_level, emulation_done>>
    BY <1>24 DEF HandleExceptionCaught, At
  <2>5. QED
    BY <1>1, <2>2, <2>3, <2>4, PutStays
<1>25. CASE TraceCount
  <2>1. DEFINE f == [Top EXCEPT !.pc = "check", !.asked = IF Exceeded /\ @ = "no" THEN "count" ELSE @]
  <2>2. f \in Frame /\ f.pc = "check" /\ f.next = Top.next
    BY <1>2, <1>0 DEF Frame
  <2>3. FrameOK(f)
    BY <1>2, <2>2 DEF FrameOK
  <2>4. Put(f) /\ Top.pc \notin {"probe", "join"} /\ UNCHANGED <<nested_level, emulation_done>>
    BY <1>25 DEF TraceCount, At
  <2>5. QED
    BY <1>1, <2>2, <2>3, <2>4, PutStays
<1>26. CASE TraceUser
  <2>1. DEFINE f == [Top EXCEPT !.pc = "callback", !.next = "check"]
  <2>2. f \in Frame /\ f.pc = "callback" /\ f.next = "check"
    BY <1>2, <1>0 DEF Frame
  <2>3. FrameOK(f)
    BY <1>2, <2>2 DEF FrameOK
  <2>4. Put(f) /\ Top.pc \notin {"probe", "join"} /\ UNCHANGED <<nested_level, emulation_done>>
    BY <1>26 DEF TraceUser, At
  <2>5. QED
    BY <1>1, <2>2, <2>3, <2>4, PutStays
<1>27. CASE TraceNoStopCall
  <2>1. DEFINE f == [Top EXCEPT !.pc = "callback", !.next = "revert"]
  <2>2. f \in Frame /\ f.pc = "callback" /\ f.next = "revert"
    BY <1>2, <1>0 DEF Frame
  <2>3. FrameOK(f)
    BY <1>2, <2>2 DEF FrameOK
  <2>4. Put(f) /\ Top.pc \notin {"probe", "join"} /\ UNCHANGED <<nested_level, emulation_done>>
    BY <1>27 DEF TraceNoStopCall, At
  <2>5. QED
    BY <1>1, <2>2, <2>3, <2>4, PutStays
<1>28. CASE Fault
  <2>1. DEFINE f == [Top EXCEPT !.pc = "exception", !.failed = TRUE]
  <2>2. f \in Frame /\ f.pc = "exception" /\ f.next = Top.next
    BY <1>2, <1>0 DEF Frame
  <2>3. FrameOK(f)
    BY <1>2, <2>2 DEF FrameOK
  <2>4. Put(f) /\ Top.pc \notin {"probe", "join"} /\ UNCHANGED <<nested_level, emulation_done>>
    BY <1>28 DEF Fault, At
  <2>5. QED
    BY <1>1, <2>2, <2>3, <2>4, PutStays
<1>29. CASE \E e \in {"guest", "debug"} : RaiseException(e)
  <2>1. DEFINE f == [Top EXCEPT !.pc = "exception", !.failed = TRUE]
  <2>2. f \in Frame /\ f.pc = "exception" /\ f.next = Top.next
    BY <1>2, <1>0 DEF Frame
  <2>3. FrameOK(f)
    BY <1>2, <2>2 DEF FrameOK
  <2>4. Put(f) /\ Top.pc \notin {"probe", "join"} /\ UNCHANGED <<nested_level, emulation_done>>
    BY <1>29 DEF RaiseException, At
  <2>5. QED
    BY <1>1, <2>2, <2>3, <2>4, PutStays
<1>30. ASSUME NEW p \in {"trace", "tb", "high"}, Ran(p)
       PROVE  Stays
  <2>1. DEFINE k == IF Top.count = 0 \/ Top.executed > MaxCount THEN Top.executed ELSE Top.executed + 1
  <2>2. DEFINE f == [Top EXCEPT !.pc = p, !.executed = k]
  <2>3. k \in 0 .. MaxCount + 1
    BY <1>2, CountAssumption DEF Frame
  <2>4. Put(f) /\ Top.pc \notin {"probe", "join"} /\ UNCHANGED <<nested_level, emulation_done>>
    BY <1>30 DEF Ran, At
  <2> HIDE DEF k
  <2>5. f \in Frame /\ f.pc = p /\ f.next = Top.next
    BY <1>0, <1>2, <2>3 DEF Frame
  <2>6. FrameOK(f)
    BY <1>2, <2>5 DEF FrameOK
  <2>7. QED
    BY <1>1, <2>4, <2>5, <2>6, PutStays
<1>31. CASE Insn \/ TbEnd
  BY <1>30, <1>31 DEF Insn, TbEnd
<1>32. ASSUME NEW why \in {"stop", "error", "hlt"}, Ended(why), Top.pc \notin {"probe", "join"},
              UNCHANGED <<nested_level, emulation_done>>
       PROVE  Stays
  <2>1. DEFINE f == [Top EXCEPT !.pc = "clear", !.todo = <<"exit_request", "high">>,
                    !.next = "exits", !.by = why]
  <2>2. "clear" \in Pc /\ "exits" \in Pc
    BY DEF Pc
  <2>3. f \in Frame /\ f.pc = "clear" /\ f.todo = <<"exit_request", "high">> /\ f.next = "exits"
    BY <1>2, <1>17, <2>2 DEF Frame
  <2>4. FrameOK(f)
    BY <2>3 DEF FrameOK
  <2>5. QED
    BY <1>1, <1>32, <2>3, <2>4, PutStays DEF Ended
<1>33. CASE ExecReturned
  BY <1>1, <1>17, <1>32, <1>33, GotoStays, ClearingStays DEF ExecReturned, At, Pc
<1>34. CASE Verdict
  BY <1>1, <1>17, <1>32, <1>34, GotoStays, ClearingStays DEF Verdict, Finish, At, Pc
<1>35. QED
  BY <1>3, <1>4, <1>5, <1>6, <1>7, <1>8, <1>9, <1>10, <1>11, <1>12, <1>13, <1>14, <1>15, <1>16,
     <1>18, <1>19, <1>20, <1>21, <1>22, <1>23, <1>24, <1>25, <1>26, <1>27, <1>28, <1>29, <1>31,
     <1>33, <1>34 DEF Inside

\* Setting and clearing requests.
LEMMA FlagTypes ==
    ASSUME flag \in [Flag -> BOOLEAN], NEW F
    PROVE  Set(F) \in [Flag -> BOOLEAN] /\ Clear(F) \in [Flag -> BOOLEAN]
BY DEF Set, Clear

\* The counter of hook_count_cb, which the model stops above MaxCount.
LEMMA CountTypes ==
    ASSUME TypeOK, hook_count_cb
    PROVE  emu_counter' \in 0 .. MaxCount + 1 /\ flag' \in [Flag -> BOOLEAN]
BY FlagTypes, CountAssumption DEF TypeOK, hook_count_cb, Counted

\* Types of what those steps change.
LEMMA InsideTypes ==
    ASSUME IInv, Inside
    PROVE  TypeOK'
<1>1. /\ frames' \in Seq(Frame) /\ UNCHANGED <<nested_level, emulation_done>>
  BY InsideStays DEF Stays
<1>2. TypeOK
  BY DEF IInv
<1>3. frames # <<>> => Top \in Frame
  BY TopFrame
<1>4. CASE EmuStartCount
  BY <1>1, <1>2, <1>4, <1>3 DEF EmuStartCount, At, Frame, TypeOK, cpu, counting, timing
<1>5. CASE EnableTimer
  BY <1>1, <1>2, <1>5, <1>3 DEF EnableTimer, At, Frame, Where, TypeOK, cpu, counting, timing
<1>6. CASE ClearFlag
  BY <1>1, <1>2, <1>6, FlagTypes DEF ClearFlag, TypeOK, cpu, counting, timing
<1>7. CASE ResumeAllVcpus
  BY <1>1, <1>2, <1>7, FlagTypes DEF ResumeAllVcpus, TypeOK, cpu, counting, timing
<1>8. CASE TcgCpuExec
  BY <1>1, <1>2, <1>8, FlagTypes DEF TcgCpuExec, TypeOK, cpu, counting, timing
<1>9. CASE HandleExceptionNone
  BY <1>1, <1>2, <1>9 DEF HandleExceptionNone, TypeOK, cpu, counting, timing
<1>10. CASE HandleExceptionExit
  BY <1>1, <1>2, <1>10 DEF HandleExceptionExit, TypeOK, cpu, counting, timing
<1>11. CASE HandleExceptionUncaught
  BY <1>1, <1>2, <1>11 DEF HandleExceptionUncaught, TypeOK, cpu, counting, timing
<1>12. CASE HandleExceptionCaught
  BY <1>1, <1>2, <1>12 DEF HandleExceptionCaught, TypeOK, cpu, counting, timing
<1>13. CASE HandleExceptionDone
  BY <1>1, <1>2, <1>13 DEF HandleExceptionDone, TypeOK, cpu, counting, timing
<1>14. CASE HandleInterruptHigh
  BY <1>1, <1>2, <1>14, FlagTypes DEF HandleInterruptHigh, TypeOK, cpu, counting, timing
<1>15. CASE HandleInterruptExit
  BY <1>1, <1>2, <1>15, FlagTypes DEF HandleInterruptExit, TypeOK, cpu, counting, timing
<1>16. CASE TbFind
  BY <1>1, <1>2, <1>16 DEF TbFind, TypeOK, cpu, counting, timing
<1>17. CASE CheckExitRequest
  BY <1>1, <1>2, <1>17 DEF CheckExitRequest, TypeOK, cpu, counting, timing
<1>18. CASE CheckInDelaySlot
  BY <1>1, <1>2, <1>18 DEF CheckInDelaySlot, TypeOK, cpu, counting, timing
<1>19. CASE TraceNone
  BY <1>1, <1>2, <1>19 DEF TraceNone, TypeOK, cpu, counting, timing
<1>20. CASE TraceSkip
  BY <1>1, <1>2, <1>20 DEF TraceSkip, TypeOK, cpu, counting, timing
<1>21. CASE TraceCount
  BY <1>1, <1>2, <1>21, CountTypes DEF TraceCount, TypeOK, cpu, counting, timing
<1>22. CASE TraceUser
  BY <1>1, <1>2, <1>22, CountTypes DEF TraceUser, TypeOK, cpu, counting, timing
<1>23. CASE TraceNoStop
  BY <1>1, <1>2, <1>23 DEF TraceNoStop, TypeOK, cpu, counting, timing
<1>24. CASE TraceNoStopCall
  BY <1>1, <1>2, <1>24, CountTypes DEF TraceNoStopCall, TypeOK, cpu, counting, timing
<1>25. CASE TraceNoStopRevert
  BY <1>1, <1>2, <1>25 DEF TraceNoStopRevert, TypeOK, cpu, counting, timing
<1>26. CASE CallbackReturn
  BY <1>1, <1>2, <1>26 DEF CallbackReturn, TypeOK, cpu, counting, timing
<1>27. CASE Insn
  BY <1>1, <1>2, <1>27 DEF Insn, Ran, TypeOK, cpu, counting, timing
<1>28. CASE TbEnd
  BY <1>1, <1>2, <1>28 DEF TbEnd, Ran, TypeOK, cpu, counting, timing
<1>29. CASE Halt
  BY <1>1, <1>2, <1>29 DEF Halt, TypeOK, cpu, counting, timing
<1>30. CASE Fault
  BY <1>1, <1>2, <1>30, FlagTypes DEF Fault, TypeOK, cpu, counting, timing
<1>31. CASE \E e \in {"guest", "debug"} : RaiseException(e)
  BY <1>1, <1>2, <1>31 DEF RaiseException, TypeOK, cpu, counting, timing
<1>32. CASE ExecReturned
  BY <1>1, <1>2, <1>32 DEF ExecReturned, TypeOK, cpu, counting, timing
<1>33. CASE Verdict
  BY <1>1, <1>2, <1>33 DEF Verdict, TypeOK, cpu, counting, timing
<1>34. QED
  BY <1>4, <1>5, <1>6, <1>7, <1>8, <1>9, <1>10, <1>11, <1>12, <1>13, <1>14, <1>15, <1>16, <1>17,
     <1>18, <1>19, <1>20, <1>21, <1>22, <1>23, <1>24, <1>25, <1>26, <1>27, <1>28, <1>29, <1>30,
     <1>31, <1>32, <1>33 DEF Inside

\* A step that leaves the levels and the frames as they are.
LEMMA SameLevels ==
    ASSUME IInv, UNCHANGED <<frames, nested_level>>, emulation_done' => emulation_done
    PROVE  JumpTarget' /\ DoneOutside' /\ Stack'
BY DEF IInv, JumpTarget, DoneOutside, Stack, At, Top, Outer

\* Going to a place with or without a level of its own.
LEMMA GotoFrame ==
    ASSUME IInv, frames # <<>>, NEW p \in Pc \ {"clear"}, Goto(p)
    PROVE  Kept /\ frames' \in Seq(Frame) /\ Top'.pc = p /\ FrameOK(Top')
<1>1. Top \in Frame /\ FrameOK(Top) /\ frames \in Seq(Frame)
  BY TopFrame DEF IInv, TypeOK
<1>2. DEFINE f == [Top EXCEPT !.pc = p]
<1>3. f \in Frame /\ FrameOK(f) /\ f.pc = p
  BY <1>1 DEF Frame, FrameOK
<1>4. Put(f)
  BY DEF Goto
<1> HIDE DEF f
<1>5. QED
  BY <1>1, <1>3, <1>4, PutFrame

\* The calls of the user: only a uc_emu_start that is not refused takes a level.
LEMMA UserLevels ==
    ASSUME IInv, UserStep
    PROVE  IInv'
<1>1. TypeOK /\ frames \in Seq(Frame)
  BY DEF IInv, TypeOK
<1>2. CASE EmuStop
  <2>1. flag' \in [Flag -> BOOLEAN]
    BY <1>1, <1>2, FlagTypes DEF EmuStop, TypeOK
  <2>2. CASE frames = <<>>
    <3>1. UNCHANGED <<frames, nested_level, emulation_done>>
      BY <1>2, <2>2 DEF EmuStop, Asking
    <3>2. TypeOK'
      BY <1>1, <1>2, <2>1, <3>1 DEF EmuStop, TypeOK, cpu, counting, timing
    <3>3. QED
      BY <3>1, <3>2, SameLevels DEF IInv
  <2>3. CASE frames # <<>>
    <3>1. Top \in Frame /\ FrameOK(Top) /\ Top.pc = "callback"
      BY <1>2, <2>3, TopFrame DEF EmuStop, InUser, At
    <3>2. Kept /\ Top' = [Top EXCEPT !.asked = "user"] /\ frames' \in Seq(Frame)
      BY <1>1, <1>2, <2>3, AskFrame DEF EmuStop
    <3>3. Top'.pc = "callback" /\ FrameOK(Top')
      BY <3>1, <3>2 DEF Frame, FrameOK
    <3>4. UNCHANGED <<nested_level, emulation_done>>
      BY <1>2 DEF EmuStop
    <3>5. JumpTarget' /\ DoneOutside' /\ Stack'
      BY <3>1, <3>2, <3>3, <3>4, StaysOK DEF Stays
    <3>6. TypeOK'
      BY <1>1, <1>2, <2>1, <3>2 DEF EmuStop, TypeOK, cpu, counting, timing
    <3>7. QED
      BY <3>5, <3>6 DEF IInv
  <2>4. QED
    BY <2>2, <2>3
<1>3. CASE RegWritePc \/ MemProtect
  <2>1. TypeOK'
    BY <1>1, <1>3, FlagTypes DEF RegWritePc, MemProtect, TypeOK, cpu, counting, timing
  <2>2. UNCHANGED <<frames, nested_level, emulation_done>>
    BY <1>3 DEF RegWritePc, MemProtect
  <2>3. QED
    BY <2>1, <2>2, SameLevels DEF IInv
<1>4. CASE EmuStartRefused
  <2>1. TypeOK'
    <3>1. emu_counter' \in 0 .. MaxCount + 1
      BY <1>4, CountAssumption DEF EmuStartRefused, EmuReset
    <3>2. QED
      BY <1>1, <1>4, <3>1 DEF EmuStartRefused, EmuReset, TypeOK, cpu
  <2>2. UNCHANGED <<frames, nested_level>> /\ ~emulation_done'
    BY <1>4 DEF EmuStartRefused, EmuReset
  <2>3. QED
    BY <2>1, <2>2, SameLevels DEF IInv
<1>5. ASSUME NEW t \in Timer \cup {NoTimer}, NEW c \in 0 .. MaxCount, EmuStart(t, c)
      PROVE  IInv'
  <2>1. DEFINE f == [pc |-> "clear", next |-> "begin", todo |-> <<"stop_request">>,
                     ret |-> "none", timer |-> t, count |-> c, executed |-> 0,
                     asked |-> "no", failed |-> FALSE, by |-> "none"]
  <2>2. "clear" \in Pc /\ "begin" \in Pc /\ <<"stop_request">> \in Seq(Flag) /\ 0 \in 0 .. MaxCount + 1
    BY CountAssumption DEF Pc, Flag
  <2>3. f \in Frame /\ FrameOK(f) /\ f.pc = "clear"
    BY <2>2 DEF Frame, FrameOK
  <2>4. frames' = Append(Asking("no"), f)
    BY <1>5 DEF EmuStart
  <2> HIDE DEF f
  <2>5. Pushed(f) /\ frames' \in Seq(Frame)
    BY <1>1, <2>3, <2>4, PushFrame
  <2>6. /\ frames = <<>> \/ At("callback")
        /\ nested_level < MAX_NESTED /\ nested_level' = nested_level + 1 /\ ~emulation_done'
    BY <1>5 DEF EmuStart, InUser, EmuReset
  <2>7. nested_level = Len(frames) /\ nested_level \in Nat
    BY <2>6, NestedAssumption DEF IInv, TypeOK, JumpTarget, At
  <2>8. JumpTarget' /\ DoneOutside'
    BY <2>3, <2>5, <2>6, <2>7 DEF Pushed, JumpTarget, DoneOutside, At
  <2>9. Stack'
    <3>1. Len(frames') <= MAX_NESTED /\ FrameOK(Top')
      BY <2>3, <2>5, <2>6, <2>7, NestedAssumption DEF Pushed
    <3>2. ASSUME frames # <<>>
          PROVE  frames'[Len(frames)].pc = "callback" /\ FrameOK(frames'[Len(frames)])
      BY <2>5, <2>6, <3>2, TopFrame DEF Pushed, At, Frame, FrameOK
    <3>3. \A n \in Outer' : n \in Outer \/ (frames # <<>> /\ n = Len(frames))
      BY <2>5, <2>7 DEF Pushed, Outer
    <3>4. \A n \in Outer' : frames'[n].pc = "callback" /\ FrameOK(frames'[n])
      BY <2>5, <3>2, <3>3 DEF Pushed, IInv, Stack
    <3>5. QED
      BY <3>1, <3>4 DEF Stack
  <2>10. nested_level' \in 0 .. MAX_NESTED + 1
    BY <2>6, <2>7, NestedAssumption
  <2>11. flag' \in [Flag -> BOOLEAN] /\ emu_counter' \in 0 .. MaxCount + 1
    BY <1>1, <1>5, FlagTypes, CountAssumption DEF EmuStart, EmuReset, TypeOK
  <2>12. TypeOK'
    BY <1>1, <1>5, <2>5, <2>10, <2>11 DEF EmuStart, EmuReset, TypeOK, cpu
  <2>13. QED
    BY <2>8, <2>9, <2>12 DEF IInv
<1>6. QED
  BY <1>2, <1>3, <1>4, <1>5 DEF UserStep

\* The steps at the end of uc_emu_start, which take and give back levels.
Leaving == EmuStartNoMem \/ InvalidateExit \/ InvalidateExitDone \/ EmuLeave \/ EmuReturn

\* Levels are given back in the order they were taken.
LEMMA LeavingLevels ==
    ASSUME IInv, Leaving
    PROVE  IInv'
<1>1. TypeOK /\ frames \in Seq(Frame) /\ frames # <<>>
  BY DEF IInv, TypeOK, Leaving, EmuStartNoMem, InvalidateExit, InvalidateExitDone, EmuLeave,
         EmuReturn, At
<1>2. Top \in Frame /\ FrameOK(Top) /\ Len(frames) \in Nat \ {0} /\ Len(frames) <= MAX_NESTED
  BY <1>1, TopFrame DEF IInv, Stack
<1>3. nested_level \in Int /\ MAX_NESTED \in Nat
  BY <1>1, NestedAssumption DEF TypeOK
<1>4. {"probe", "leave", "join"} \subseteq Pc \ {"clear"}
  BY DEF Pc
<1>5. ASSUME Popped
      PROVE  Stack' /\ (frames' # <<>> => Top'.pc = "callback")
  <2>1. frames' # <<>> => Top'.pc = "callback" /\ FrameOK(Top')
    BY <1>5 DEF Popped, IInv, Stack
  <2>2. \A n \in Outer' : n \in Outer /\ frames'[n] = frames[n]
    BY <1>2, <1>5 DEF Popped, Outer
  <2>3. QED
    BY <1>2, <1>3, <1>5, <2>1, <2>2 DEF Popped, IInv, Stack
<1>6. ASSUME Kept, FrameOK(Top')
      PROVE  Stack'
  BY <1>2, <1>6 DEF Kept, IInv, Stack, Outer
<1>7. CASE EmuStartNoMem
  <2>1. Popped /\ frames' \in Seq(Frame)
    BY <1>1, <1>7, PopFrame DEF EmuStartNoMem
  <2>2. nested_level = Len(frames) /\ nested_level' = Len(frames')
    BY <1>2, <1>3, <1>7, <2>1 DEF EmuStartNoMem, At, IInv, JumpTarget, Popped
  <2>3. JumpTarget'
    BY <1>5, <2>1, <2>2 DEF Popped, JumpTarget, At
  <2>4. DoneOutside'
    BY <1>2, <1>7, <2>2 DEF EmuStartNoMem, IInv, DoneOutside
  <2>5. emu_count' \in 0 .. MaxCount /\ nested_level' \in 0 .. MAX_NESTED + 1
    BY <1>2, <1>3, <1>7, <2>1, <2>2 DEF EmuStartNoMem, Popped, Frame
  <2>6. TypeOK'
    BY <1>1, <1>7, <2>1, <2>5 DEF EmuStartNoMem, TypeOK, cpu, timing
  <2>7. QED
    BY <1>5, <2>1, <2>3, <2>4, <2>6 DEF IInv
<1>8. CASE InvalidateExit
  <2>1. \E p \in {"probe", "leave"} : Goto(p) /\ nested_level' = nested_level + (IF p = "probe" THEN 1 ELSE 0)
    BY <1>3, <1>8 DEF InvalidateExit
  <2>2. /\ Kept /\ frames' \in Seq(Frame) /\ FrameOK(Top')
        /\ \/ Top'.pc = "probe" /\ nested_level' = nested_level + 1
           \/ Top'.pc = "leave" /\ nested_level' = nested_level
    BY <1>1, <1>3, <1>4, <2>1, GotoFrame
  <2>3. nested_level = Len(frames)
    BY <1>2, <1>8 DEF InvalidateExit, At, IInv, JumpTarget
  <2>4. JumpTarget' /\ DoneOutside'
    BY <1>2, <1>8, <2>2, <2>3 DEF InvalidateExit, Kept, IInv, JumpTarget, DoneOutside, At
  <2>5. TypeOK'
    BY <1>1, <1>2, <1>3, <1>8, <2>2, <2>3 DEF InvalidateExit, TypeOK, cpu, counting, timing
  <2>6. QED
    BY <1>6, <2>2, <2>4, <2>5 DEF IInv
<1>9. CASE InvalidateExitDone
  <2>1. Kept /\ frames' \in Seq(Frame) /\ FrameOK(Top') /\ Top'.pc = "leave"
    BY <1>1, <1>4, <1>9, GotoFrame DEF InvalidateExitDone
  <2>2. nested_level = Len(frames) + 1 /\ nested_level' = Len(frames)
    BY <1>2, <1>3, <1>9 DEF InvalidateExitDone, At, IInv, JumpTarget
  <2>3. JumpTarget' /\ DoneOutside'
    BY <1>2, <1>9, <2>1, <2>2 DEF InvalidateExitDone, Kept, IInv, JumpTarget, DoneOutside, At
  <2>4. TypeOK'
    BY <1>1, <1>2, <1>3, <1>9, <2>1, <2>2 DEF InvalidateExitDone, TypeOK, counting, timing
  <2>5. QED
    BY <1>6, <2>1, <2>3, <2>4 DEF IInv
<1>10. CASE EmuLeave
  <2>1. Kept /\ frames' \in Seq(Frame) /\ FrameOK(Top') /\ Top'.pc = "join"
    BY <1>1, <1>4, <1>10, GotoFrame DEF EmuLeave
  <2>2. nested_level = Len(frames) /\ nested_level' = Len(frames) - 1
    BY <1>2, <1>3, <1>10 DEF EmuLeave, At, IInv, JumpTarget
  <2>3. JumpTarget'
    BY <1>2, <2>1, <2>2 DEF Kept, JumpTarget, At
  <2>4. DoneOutside'
    <3>1. ~emulation_done
      BY <1>2, <2>2 DEF IInv, DoneOutside
    <3>2. emulation_done' <=> nested_level = 1
      BY <1>10, <3>1 DEF EmuLeave
    <3>3. nested_level = 1 => nested_level' = 0
      BY <2>2
    <3>4. QED
      BY <3>2, <3>3 DEF DoneOutside
  <2>5. TypeOK'
    BY <1>1, <1>2, <1>3, <1>10, <2>1, <2>2 DEF EmuLeave, TypeOK, cpu, counting, timing
  <2>6. QED
    BY <1>6, <2>1, <2>3, <2>4, <2>5 DEF IInv
<1>11. CASE EmuReturn
  <2>1. Popped /\ frames' \in Seq(Frame)
    BY <1>1, <1>11, PopFrame DEF EmuReturn
  <2>2. nested_level' = nested_level /\ nested_level' = Len(frames')
    BY <1>2, <1>3, <1>11, <2>1 DEF EmuReturn, At, IInv, JumpTarget, Popped
  <2>3. JumpTarget'
    BY <1>3, <1>5, <2>1, <2>2 DEF JumpTarget, At
  <2>4. DoneOutside'
    BY <1>11, <2>2 DEF EmuReturn, IInv, DoneOutside
  <2>5. thread' \in [Timer -> Where]
    BY <1>1, <1>11 DEF EmuReturn, TypeOK, Where
  <2>6. TypeOK'
    BY <1>1, <1>11, <2>1, <2>2, <2>5 DEF EmuReturn, TypeOK, cpu, counting
  <2>7. QED
    BY <1>5, <2>1, <2>3, <2>4, <2>6 DEF IInv
<1>12. QED
  BY <1>7, <1>8, <1>9, <1>10, <1>11 DEF Leaving

\* The timer threads write timed_out and the requests only.
LEMMA TimerLevels ==
    ASSUME IInv, NEW t \in Timer, TimerStep(t)
    PROVE  IInv'
<1>1. TypeOK
  BY DEF IInv
<1>2. thread' \in [Timer -> Where] /\ timed_out' \in BOOLEAN
  BY <1>1 DEF TimerStep, TimerLoop, TimerFinal, TimerStop, TimerBreak, TimerExit, TimerHigh,
              TypeOK, Where
<1>3. flag' \in [Flag -> BOOLEAN]
  BY <1>1, FlagTypes DEF TimerStep, TimerLoop, TimerFinal, TimerStop, TimerBreak, TimerExit,
                         TimerHigh, TypeOK
<1>4. TypeOK'
  BY <1>1, <1>2, <1>3 DEF TimerStep, TypeOK, cpu, counting
<1>5. UNCHANGED <<frames, nested_level, emulation_done>>
  BY DEF TimerStep
<1>6. QED
  BY <1>4, <1>5, SameLevels DEF IInv

\* The steps of the specification, by what they do to the frames.
LEMMA Steps ==
    ASSUME Next
    PROVE  UserStep \/ Inside \/ Leaving \/ \E t \in Timer : TimerStep(t)
BY DEF Next, EngineStep, Inside, Leaving

\* The state uc_open leaves.
LEMMA InitInv ==
    ASSUME Init
    PROVE  IInv
<1>1. TypeOK
  <2>1. frames \in Seq(Frame) /\ flag \in [Flag -> BOOLEAN] /\ thread \in [Timer -> Where]
    BY DEF Init, Where
  <2>2. 0 \in 0 .. MAX_NESTED + 1 /\ 0 \in 0 .. MaxCount + 1 /\ 0 \in 0 .. MaxCount
    BY CountAssumption, NestedAssumption
  <2>3. QED
    BY <2>1, <2>2 DEF Init, TypeOK
<1>2. Len(frames) = 0 /\ nested_level = 0 /\ MAX_NESTED \in Nat /\ frames = <<>>
  BY NestedAssumption DEF Init
<1>3. JumpTarget /\ DoneOutside /\ Stack
  BY <1>2 DEF JumpTarget, DoneOutside, Stack, At, Outer
<1>4. QED
  BY <1>1, <1>3 DEF IInv

\* No step breaks the levels.
LEMMA InvStep ==
    ASSUME IInv, [Next]_vars
    PROVE  IInv'
<1>1. CASE UserStep
  BY <1>1, UserLevels
<1>2. CASE Inside
  BY <1>2, InsideTypes, InsideStays, StaysOK DEF IInv
<1>3. CASE Leaving
  BY <1>3, LeavingLevels
<1>4. CASE \E t \in Timer : TimerStep(t)
  BY <1>4, TimerLevels
<1>5. CASE UNCHANGED vars
  <2>1. TypeOK' /\ UNCHANGED <<frames, nested_level, emulation_done>>
    BY <1>5 DEF vars, IInv, TypeOK
  <2>2. QED
    BY <2>1, SameLevels DEF IInv
<1>6. QED
  BY <1>1, <1>2, <1>3, <1>4, <1>5, Steps

\* The inductive invariant holds in every configuration.
LEMMA InvAlways == Spec => []IInv
<1>1. Init => IInv
  BY InitInv
<1>2. IInv /\ [Next]_vars => IInv'
  BY InvStep
<1>3. QED
  BY <1>1, <1>2, PTL DEF Spec

\* The levels of uc_emu_start and uc_invalidate_tb always select the jump buffer
\* and the exit address of the innermost call: for every nesting limit, number
\* of timers, count and set of circumstances.
THEOREM Levels == Spec => [](TypeOK /\ JumpTarget)
<1>1. IInv => TypeOK /\ JumpTarget
  BY DEF IInv
<1>2. QED
  BY <1>1, InvAlways, PTL

\* emulation_done is never seen TRUE inside an emulation, as generally.
THEOREM DoneIsOutside == Spec => []DoneOutside
<1>1. IInv => DoneOutside
  BY DEF IInv
<1>2. QED
  BY <1>1, InvAlways, PTL

-----------------------------------------------------------------------------
(* Stops. *)

\* What the flags and the pending exception are while a call that was asked to
\* stop is on its way out: stop_request stays set until tcg_cpu_exec reads it,
\* and at every place before that something is left that makes cpu_exec return.
\* After it has read it, the call only returns.
OnItsWayOut(f, fl, ex) ==
    \/ f.pc \in {"exits", "probe", "leave", "join"}
    \/ f.pc = "clear" /\ f.next = "exits"
    \/ /\ fl["stop_request"]
       /\ \/ f.pc = "callback" /\ fl["exit_request"] /\ (f.next = "check" => fl["high"])
          \/ f.pc = "check" /\ fl["exit_request"] /\ fl["high"]
          \/ f.pc = "handled" /\ fl["exit_request"]
          \/ f.pc = "exception" /\ (fl["exit_request"] \/ ex = "interrupt")
          \/ f.pc \in {"high", "interrupt"} /\ fl["exit_request"] /\ ex = "none"
          \/ f.pc = "return"

\* No hook is that of an instruction in an IT block.
Stoppable(f) ==
    /\ f.pc \notin {"nostop", "revert"}
    /\ f.pc = "callback" => f.next \in {"check", "handled"}
    /\ f.pc = "clear" => f.next \in {"begin", "loop", "verdict", "exits"}

StopTop == frames # <<>> => Stoppable(Top) /\ (Top.asked # "no" => OnItsWayOut(Top, flag, exception))
StopOuter == \A n \in Outer : frames[n].asked = "no" /\ Stoppable(frames[n])

\* What Put makes the innermost frame.
LEMMA TopPut ==
    ASSUME IInv, frames # <<>>
    PROVE  \A f : Put(f) => Top' = f
<1> TAKE f
<1>1. frames \in Seq(Frame)
  BY DEF IInv, TypeOK
<1>2. QED
  BY <1>1, PutFrame

\* The counter called by helper_uc_tracecode, and what it does to the frame.
LEMMA CountFrame ==
    ASSUME IInv, TraceCount
    PROVE  /\ Top'.pc = "check" /\ Top'.next = Top.next /\ Top'.timer = Top.timer
           /\ Top'.count = Top.count /\ Top'.executed = Top.executed
           /\ Top'.failed = Top.failed /\ Top'.by = Top.by
           /\ Exceeded => Top'.asked # "no" /\ (Top.asked = "no" => Top'.asked = "count")
           /\ ~Exceeded => Top'.asked = Top.asked /\ UNCHANGED flag
<1>1. frames # <<>> /\ Top \in Frame
  BY TopFrame DEF TraceCount, At
<1>2. DEFINE a == IF Exceeded /\ Top.asked = "no" THEN "count" ELSE Top.asked
<1>3. Put([Top EXCEPT !.pc = "check", !.asked = a])
  BY DEF TraceCount
<1>4. /\ Exceeded => a # "no" /\ (Top.asked = "no" => a = "count")
      /\ ~Exceeded => a = Top.asked
  OBVIOUS
<1> HIDE DEF a
<1>5. Top' = [Top EXCEPT !.pc = "check", !.asked = a]
  BY <1>1, <1>3, TopPut
<1>6. /\ Top'.pc = "check" /\ Top'.next = Top.next /\ Top'.timer = Top.timer
      /\ Top'.count = Top.count /\ Top'.executed = Top.executed
      /\ Top'.failed = Top.failed /\ Top'.by = Top.by /\ Top'.asked = a
  BY <1>1, <1>5 DEF Frame
<1>7. ~Exceeded => UNCHANGED flag
  BY DEF TraceCount, hook_count_cb
<1>8. QED
  BY <1>4, <1>6, <1>7

\* A call that was asked to stop stays on its way out.
LEMMA InsideStop ==
    ASSUME IInv, StopTop, Inside, "it" \notin Allow, "delay" \notin Allow
    PROVE  StopTop'
<1>1. frames # <<>>
  BY InsideStays DEF Stays, Kept
<1>2. Top \in Frame /\ Stoppable(Top) /\ (Top.asked # "no" => OnItsWayOut(Top, flag, exception))
  BY <1>1, TopFrame DEF StopTop
<1>3. \A f : Put(f) => Top' = f
  BY <1>1, TopPut
<1>4. flag \in [Flag -> BOOLEAN] /\ ~emulation_done
  BY <1>1, InsideStays, TopFrame DEF Stays, IInv, TypeOK, DoneOutside, JumpTarget, At
<1>5. SUFFICES Stoppable(Top') /\ (Top'.asked # "no" => OnItsWayOut(Top', flag', exception'))
  BY DEF StopTop
<1>6. CASE EmuStartCount
  BY <1>1, <1>2, <1>3, <1>4, <1>6 DEF EmuStartCount, At, Goto, Frame, Stoppable, OnItsWayOut,
       cpu
<1>7. CASE EnableTimer
  BY <1>1, <1>2, <1>3, <1>4, <1>7 DEF EnableTimer, At, Goto, Frame, Stoppable, OnItsWayOut, cpu
<1>8. CASE ClearFlag
  BY <1>1, <1>2, <1>3, <1>4, <1>8 DEF ClearFlag, At, Goto, Frame, Stoppable, OnItsWayOut, Set,
       Clear, Flag, cpu_exit, cpu
<1>9. CASE ResumeAllVcpus
  BY <1>1, <1>2, <1>3, <1>4, <1>9 DEF ResumeAllVcpus, At, Goto, Frame, Stoppable, OnItsWayOut,
       Set, Clear, Flag, cpu_exit, cpu
<1>10. CASE TcgCpuExec
  <2>1. Top.asked = "no"
    BY <1>2, <1>10 DEF TcgCpuExec, At, OnItsWayOut
  <2>2. CASE stopped
    <3>1. Top' = [Top EXCEPT !.pc = "clear", !.todo = <<"exit_request", "high">>, !.next = "loop"]
      BY <1>3, <1>10, <2>2 DEF TcgCpuExec, Finish, GotoClearing
    <3>2. Top'.asked = "no" /\ Top'.pc = "clear" /\ Top'.next = "loop"
      BY <1>2, <2>1, <3>1 DEF Frame
    <3>3. QED
      BY <3>2 DEF Stoppable
  <2>3. CASE ~stopped
    <3>1. Top' = [Top EXCEPT !.pc = "exception"]
      BY <1>3, <1>10, <2>3 DEF TcgCpuExec, Goto
    <3>2. Top'.asked = "no" /\ Top'.pc = "exception"
      BY <1>2, <2>1, <3>1 DEF Frame
    <3>3. QED
      BY <3>2 DEF Stoppable
  <2>4. QED
    BY <2>2, <2>3
<1>11. CASE HandleExceptionNone
  BY <1>1, <1>2, <1>3, <1>4, <1>11 DEF HandleExceptionNone, At, Goto, Frame, Stoppable,
       OnItsWayOut, cpu
<1>12. CASE HandleExceptionExit
  BY <1>1, <1>2, <1>3, <1>4, <1>12 DEF HandleExceptionExit, At, Goto, Frame, Stoppable,
       OnItsWayOut, cpu
<1>13. CASE HandleExceptionUncaught
  <2>1. Top' = [Top EXCEPT !.pc = "return", !.ret = "hlt"] /\ Top.pc = "exception" /\ UNCHANGED flag
    BY <1>3, <1>13 DEF HandleExceptionUncaught, At
  <2>2. Top'.pc = "return" /\ Top'.asked = Top.asked
    BY <1>2, <2>1 DEF Frame
  <2>3. QED
    BY <1>2, <2>1, <2>2 DEF Stoppable, OnItsWayOut
<1>14. CASE HandleExceptionCaught
  <2>1. /\ Top' = [Top EXCEPT !.pc = "callback", !.next = "handled", !.failed = FALSE]
        /\ Top.pc = "exception" /\ exception = "guest" /\ UNCHANGED flag
    BY <1>3, <1>14 DEF HandleExceptionCaught, At
  <2>2. Top'.pc = "callback" /\ Top'.next = "handled" /\ Top'.asked = Top.asked
    BY <1>2, <2>1 DEF Frame
  <2>3. QED
    BY <1>2, <2>1, <2>2 DEF Stoppable, OnItsWayOut
<1>15. CASE HandleExceptionDone
  BY <1>1, <1>2, <1>3, <1>4, <1>15 DEF HandleExceptionDone, At, Goto, Frame, Stoppable,
       OnItsWayOut, cpu
<1>16. CASE HandleInterruptHigh
  BY <1>1, <1>2, <1>3, <1>4, <1>16 DEF HandleInterruptHigh, At, Goto, Frame, Stoppable,
       OnItsWayOut, Set, Clear, Flag, cpu_exit, cpu
<1>17. CASE HandleInterruptExit
  BY <1>1, <1>2, <1>3, <1>4, <1>17 DEF HandleInterruptExit, At, Goto, Frame, Stoppable,
       OnItsWayOut, Set, Clear, Flag, cpu_exit, cpu
<1>18. CASE TbFind
  BY <1>1, <1>2, <1>3, <1>4, <1>18 DEF TbFind, At, Goto, Frame, Stoppable, OnItsWayOut, cpu
<1>19. CASE CheckExitRequest
  BY <1>1, <1>2, <1>3, <1>4, <1>19 DEF CheckExitRequest, At, Goto, Frame, Stoppable,
       OnItsWayOut, cpu
<1>20. CASE CheckInDelaySlot
  BY <1>1, <1>2, <1>3, <1>4, <1>20 DEF CheckInDelaySlot, At, Goto, Frame, Stoppable,
       OnItsWayOut, cpu
<1>21. CASE TraceNone
  BY <1>1, <1>2, <1>3, <1>4, <1>21 DEF TraceNone, At, Goto, Frame, Stoppable, OnItsWayOut, cpu
<1>22. CASE TraceSkip
  BY <1>1, <1>2, <1>3, <1>4, <1>22 DEF TraceSkip, At, Goto, Frame, Stoppable, OnItsWayOut, cpu
<1>23. CASE TraceCount
  <2>1. Top.asked = "no"
    BY <1>2, <1>23 DEF TraceCount, At, OnItsWayOut
  <2>2. Top'.pc = "check" /\ (~Exceeded => Top'.asked = "no")
    BY <1>23, <2>1, CountFrame
  <2>3. Exceeded => flag'["stop_request"] /\ flag'["exit_request"] /\ flag'["high"]
    BY <1>4, <1>23 DEF TraceCount, hook_count_cb, break_translation_loop, cpu_exit, Set, Flag
  <2>4. QED
    BY <2>2, <2>3 DEF Stoppable, OnItsWayOut
<1>24. CASE TraceUser
  <2>1. Top.asked = "no" /\ Top' = [Top EXCEPT !.pc = "callback", !.next = "check"]
    BY <1>2, <1>3, <1>24 DEF TraceUser, At, OnItsWayOut
  <2>2. Top'.asked = "no" /\ Top'.pc = "callback" /\ Top'.next = "check"
    BY <1>2, <2>1 DEF Frame
  <2>3. QED
    BY <2>2 DEF Stoppable
<1>25. CASE TraceNoStop
  BY <1>1, <1>2, <1>3, <1>4, <1>25 DEF TraceNoStop, Revert, GotoClearing, At, Goto, Frame,
       Stoppable, OnItsWayOut, cpu
<1>26. CASE TraceNoStopCall
  BY <1>1, <1>2, <1>3, <1>4, <1>26 DEF TraceNoStopCall, hook_count_cb, At, Goto, Frame,
       Stoppable, OnItsWayOut, Set, Clear, Flag, cpu_exit, cpu
<1>27. CASE TraceNoStopRevert
  BY <1>1, <1>2, <1>3, <1>4, <1>27 DEF TraceNoStopRevert, Revert, GotoClearing, At, Goto,
       Frame, Stoppable, OnItsWayOut, cpu
<1>28. CASE CallbackReturn
  BY <1>1, <1>2, <1>3, <1>4, <1>28 DEF CallbackReturn, InCallback, At, Goto, Frame, Stoppable,
       OnItsWayOut, cpu
<1>29. CASE Insn
  BY <1>1, <1>2, <1>3, <1>4, <1>29 DEF Insn, Ran, At, Goto, Frame, Stoppable, OnItsWayOut, cpu
<1>30. CASE TbEnd
  BY <1>1, <1>2, <1>3, <1>4, <1>30 DEF TbEnd, Ran, At, Goto, Frame, Stoppable, OnItsWayOut, cpu
<1>31. CASE Halt
  BY <1>1, <1>2, <1>3, <1>4, <1>31 DEF Halt, At, Goto, Frame, Stoppable, OnItsWayOut, cpu
<1>32. CASE Fault
  <2>1. Top.asked = "no" /\ Top' = [Top EXCEPT !.pc = "exception", !.failed = TRUE]
    BY <1>2, <1>3, <1>32 DEF Fault, At, OnItsWayOut
  <2>2. Top'.asked = "no" /\ Top'.pc = "exception"
    BY <1>2, <2>1 DEF Frame
  <2>3. QED
    BY <2>2 DEF Stoppable
<1>33. CASE \E e \in {"guest", "debug"} : RaiseException(e)
  BY <1>1, <1>2, <1>3, <1>4, <1>33 DEF RaiseException, At, Goto, Frame, Stoppable,
       OnItsWayOut, cpu
<1>34. CASE ExecReturned
  <2>1. Top.pc = "return" /\ UNCHANGED flag
    BY <1>34 DEF ExecReturned, At
  <2>2. CASE flag["stop_request"]
    <3>1. Top' = [Top EXCEPT !.pc = "clear", !.todo = <<"exit_request", "high">>,
                             !.next = "exits", !.by = "stop"]
      BY <1>3, <1>34, <2>2 DEF ExecReturned, Ended
    <3>2. Top'.pc = "clear" /\ Top'.next = "exits"
      BY <1>2, <3>1 DEF Frame
    <3>3. QED
      BY <3>2 DEF Stoppable, OnItsWayOut
  <2>3. CASE ~flag["stop_request"]
    <3>1. Top.asked = "no"
      BY <1>2, <2>1, <2>3 DEF OnItsWayOut
    <3>2. \/ Top' = [Top EXCEPT !.pc = "clear", !.todo = <<"stop_request", "exit_request">>,
                                !.next = "verdict"]
          \/ Top' = [Top EXCEPT !.pc = "verdict"]
      BY <1>3, <1>34, <2>3 DEF ExecReturned, GotoClearing, Goto
    <3>3. CASE Top' = [Top EXCEPT !.pc = "clear", !.todo = <<"stop_request", "exit_request">>,
                                  !.next = "verdict"]
      <4>1. Top'.asked = "no" /\ Top'.pc = "clear" /\ Top'.next = "verdict"
        BY <1>2, <3>1, <3>3 DEF Frame
      <4>2. QED
        BY <4>1 DEF Stoppable
    <3>4. CASE Top' = [Top EXCEPT !.pc = "verdict"]
      <4>1. Top'.asked = "no" /\ Top'.pc = "verdict"
        BY <1>2, <3>1, <3>4 DEF Frame
      <4>2. QED
        BY <4>1 DEF Stoppable
    <3>5. QED
      BY <3>2, <3>3, <3>4
  <2>4. QED
    BY <2>2, <2>3
<1>35. CASE Verdict
  <2>1. Top.asked = "no"
    BY <1>2, <1>35 DEF Verdict, At, OnItsWayOut
  <2>2. ASSUME NEW why \in {"error", "hlt"}, Ended(why)
        PROVE  Stoppable(Top') /\ Top'.asked = "no"
    <3>1. Top' = [Top EXCEPT !.pc = "clear", !.todo = <<"exit_request", "high">>,
                             !.next = "exits", !.by = why]
      BY <1>3, <2>2 DEF Ended
    <3>2. Top'.asked = "no" /\ Top'.pc = "clear" /\ Top'.next = "exits"
      BY <1>2, <2>1, <3>1 DEF Frame
    <3>3. QED
      BY <3>2 DEF Stoppable
  <2>3. ASSUME Finish("loop") \/ Goto("loop")
        PROVE  Stoppable(Top') /\ Top'.asked = "no"
    BY <1>2, <1>3, <2>1, <2>3 DEF Finish, GotoClearing, Goto, Frame, Stoppable
  <2>4. QED
    BY <1>35, <2>2, <2>3 DEF Verdict
<1>36. QED
  BY <1>6, <1>7, <1>8, <1>9, <1>10, <1>11, <1>12, <1>13, <1>14, <1>15, <1>16, <1>17, <1>18,
     <1>19, <1>20, <1>21, <1>22, <1>23, <1>24, <1>25, <1>26, <1>27, <1>28, <1>29, <1>30, <1>31,
     <1>32, <1>33, <1>34, <1>35 DEF Inside

\* What the other steps do to the frames: a call by the user, and a return.
NewFrame(t, c) ==
    [pc |-> "clear", next |-> "begin", todo |-> <<"stop_request">>,
     ret |-> "none", timer |-> t, count |-> c, executed |-> 0,
     asked |-> "no", failed |-> FALSE, by |-> "none"]

\* uc_emu_start pushes a frame that begins by clearing stop_request.
LEMMA StartFrame ==
    ASSUME IInv, NEW t \in Timer \cup {NoTimer}, NEW c \in 0 .. MaxCount, EmuStart(t, c)
    PROVE  Pushed(NewFrame(t, c)) /\ NewFrame(t, c) \in Frame
<1>1. "clear" \in Pc /\ "begin" \in Pc /\ <<"stop_request">> \in Seq(Flag) /\ 0 \in 0 .. MaxCount + 1
  BY CountAssumption DEF Pc, Flag
<1>2. NewFrame(t, c) \in Frame
  BY <1>1 DEF Frame, NewFrame
<1>3. frames' = Append(Asking("no"), NewFrame(t, c)) /\ frames \in Seq(Frame)
  BY DEF EmuStart, IInv, TypeOK, NewFrame
<1>4. QED
  BY <1>2, <1>3, PushFrame

\* uc_emu_stop marks the frame of the callback that calls it.
LEMMA StopFrame ==
    ASSUME IInv, EmuStop
    PROVE  \/ frames = <<>> /\ frames' = <<>>
           \/ Kept /\ Top.pc = "callback" /\ Top' = [Top EXCEPT !.asked = "user"]
<1>1. CASE frames = <<>>
  BY <1>1 DEF EmuStop, Asking
<1>2. CASE frames # <<>>
  BY <1>2, AskFrame DEF EmuStop, InUser, At, IInv, TypeOK
<1>3. QED
  BY <1>1, <1>2

\* A call goes through its last places and is popped.
LEMMA LeaveFrame ==
    ASSUME IInv, Leaving
    PROVE  /\ frames # <<>>
           /\ \/ (EmuStartNoMem \/ EmuReturn) /\ Popped
              \/ /\ InvalidateExit \/ InvalidateExitDone \/ EmuLeave
                 /\ Kept /\ \E p \in {"probe", "leave", "join"} : Top' = [Top EXCEPT !.pc = p]
<1>1. frames # <<>> /\ frames \in Seq(Frame)
  BY DEF Leaving, EmuStartNoMem, EmuReturn, InvalidateExit, InvalidateExitDone, EmuLeave, At,
         IInv, TypeOK
<1>2. CASE EmuStartNoMem \/ EmuReturn
  BY <1>1, <1>2, PopFrame DEF EmuStartNoMem, EmuReturn
<1>3. ASSUME NEW p, Goto(p)
      PROVE  Kept /\ Top' = [Top EXCEPT !.pc = p]
  BY <1>1, <1>3, PutFrame DEF Goto
<1>4. CASE InvalidateExit \/ InvalidateExitDone \/ EmuLeave
  BY <1>1, <1>3, <1>4 DEF InvalidateExit, InvalidateExitDone, EmuLeave
<1>5. QED
  BY <1>1, <1>2, <1>4 DEF Leaving

\* Inside a callback, emulation_done is FALSE: a stop reaches the cpu.
LEMMA NotDone ==
    ASSUME IInv, At("callback")
    PROVE  break_translation_loop = {"exit_request", "high"}
BY TopFrame DEF IInv, JumpTarget, DoneOutside, At, break_translation_loop, cpu_exit

\* Requests are only added by the user's calls and the timer threads.
LEMMA FlagsGrow ==
    ASSUME IInv,
           EmuStop \/ RegWritePc \/ MemProtect \/ EmuStartRefused \/ (\E t \in Timer : TimerStep(t))
           \/ UNCHANGED vars
    PROVE  /\ \A f \in Flag : flag[f] => flag'[f]
           /\ UNCHANGED exception
<1>1. flag \in [Flag -> BOOLEAN]
  BY DEF IInv, TypeOK
<1>2. \A F : \A f \in Flag : flag[f] => Set(F)[f]
  BY <1>1 DEF Set
<1>3. QED
  BY <1>1, <1>2 DEF EmuStop, RegWritePc, MemProtect, EmuStartRefused, TimerStep, TimerLoop,
                    TimerFinal, TimerStop, TimerBreak, TimerExit, TimerHigh, cpu, vars

\* No step brings a call that was asked to stop back to its instructions.
LEMMA StopStep ==
    ASSUME IInv, StopTop, StopOuter, [Next]_vars, "it" \notin Allow, "delay" \notin Allow
    PROVE  StopTop' /\ StopOuter'
<1>1. ASSUME Kept
      PROVE  StopOuter'
  BY <1>1 DEF Kept, StopOuter, Outer
<1>2. CASE Inside
  BY <1>1, <1>2, InsideStop, InsideStays DEF Stays
<1>3. ASSUME UNCHANGED <<frames, exception>>, \A f \in Flag : flag[f] => flag'[f]
      PROVE  StopTop' /\ StopOuter'
  <2>1. StopOuter'
    BY <1>3 DEF StopOuter, Outer
  <2>2. {"stop_request", "exit_request", "high"} \subseteq Flag
    BY DEF Flag
  <2>3. OnItsWayOut(Top, flag, exception) => OnItsWayOut(Top', flag', exception')
    BY <1>3, <2>2 DEF OnItsWayOut, Top
  <2>4. Top' = Top /\ (frames' # <<>> => frames # <<>>)
    BY <1>3 DEF Top
  <2>5. QED
    BY <2>1, <2>3, <2>4 DEF StopTop
<1>4. CASE RegWritePc \/ MemProtect \/ EmuStartRefused \/ (\E t \in Timer : TimerStep(t))
           \/ UNCHANGED vars
  <2>1. UNCHANGED frames
    BY <1>4 DEF RegWritePc, MemProtect, EmuStartRefused, TimerStep, vars
  <2>2. QED
    BY <1>3, <1>4, <2>1, FlagsGrow
<1>5. CASE EmuStop
  <2>1. CASE frames = <<>> /\ frames' = <<>>
    BY <2>1 DEF StopTop, StopOuter, Outer
  <2>2. CASE Kept /\ Top.pc = "callback" /\ Top' = [Top EXCEPT !.asked = "user"]
    <3>1. Top \in Frame /\ Stoppable(Top)
      BY <2>2, TopFrame DEF Kept, StopTop
    <3>2. Top'.pc = "callback" /\ Top'.next = Top.next
      BY <2>2, <3>1 DEF Frame
    <3>3. flag'["stop_request"] /\ flag'["exit_request"] /\ flag'["high"]
      BY <1>5, <2>2, NotDone DEF Kept, At, EmuStop, Set, Flag
    <3>4. Stoppable(Top')
      BY <3>1, <3>2, <2>2 DEF Stoppable
    <3>5. OnItsWayOut(Top', flag', exception')
      BY <3>2, <3>3 DEF OnItsWayOut
    <3>6. QED
      BY <1>1, <2>2, <3>4, <3>5 DEF StopTop
  <2>3. QED
    BY <1>5, <2>1, <2>2, StopFrame
<1>6. ASSUME NEW t \in Timer \cup {NoTimer}, NEW c \in 0 .. MaxCount, EmuStart(t, c)
      PROVE  StopTop' /\ StopOuter'
  <2>1. Pushed(NewFrame(t, c))
    BY <1>6, StartFrame
  <2>2. StopTop'
    BY <2>1 DEF Pushed, NewFrame, StopTop, Stoppable
  <2>3. ASSUME frames # <<>>
        PROVE  frames'[Len(frames)].asked = "no" /\ Stoppable(frames'[Len(frames)])
    <3>1. Top \in Frame /\ Stoppable(Top)
      BY <2>3, TopFrame DEF StopTop
    <3>2. QED
      BY <2>1, <2>3, <3>1 DEF Pushed, Frame, Stoppable
  <2>4. \A n \in Outer' : n \in Outer \/ (frames # <<>> /\ n = Len(frames))
    BY <2>1 DEF Pushed, Outer, IInv, TypeOK
  <2>5. QED
    BY <2>1, <2>2, <2>3, <2>4 DEF Pushed, StopOuter
<1>7. CASE Leaving
  <2>1. CASE Popped
    <3>1. frames' # <<>> => Top'.asked = "no" /\ Stoppable(Top')
      BY <2>1 DEF Popped, StopOuter
    <3>2. \A n \in Outer' : n \in Outer /\ frames'[n] = frames[n]
      BY <2>1 DEF Popped, Outer, IInv, TypeOK
    <3>3. QED
      BY <3>1, <3>2 DEF StopTop, StopOuter
  <2>2. ASSUME Kept, NEW p \in {"probe", "leave", "join"}, Top' = [Top EXCEPT !.pc = p]
        PROVE  StopTop'
    <3>1. Top \in Frame
      BY <2>2, TopFrame DEF Kept
    <3>2. Top'.pc \in {"probe", "leave", "join"}
      BY <2>2, <3>1 DEF Frame
    <3>3. QED
      BY <3>2 DEF StopTop, Stoppable, OnItsWayOut
  <2>3. QED
    BY <1>1, <1>7, <2>1, <2>2, LeaveFrame
<1>8. QED
  BY <1>2, <1>4, <1>5, <1>6, <1>7, Steps DEF UserStep

\* After uc_emu_stop, called by a callback or by the counter, the emulation it
\* belongs to runs no further instruction, with any number of timers and levels,
\* PC writes, faults and exceptions: as long as no hook is that of an instruction
\* in an ARM IT block or a delay slot, where the code reverts or skips the stop.
THEOREM StopIsHonoured ==
    ASSUME "it" \notin Allow, "delay" \notin Allow
    PROVE  Spec => []StopHonoured
<1>1. Init => StopTop /\ StopOuter
  BY DEF Init, StopTop, StopOuter, Outer
<1>2. IInv /\ StopTop /\ StopOuter /\ [Next]_vars => StopTop' /\ StopOuter'
  BY StopStep
<1>3. IInv /\ StopTop /\ StopOuter => StopHonoured
  <2>1. SUFFICES ASSUME IInv, StopTop, StopOuter, NEW n \in DOMAIN frames, frames[n].asked # "no"
                 PROVE  frames[n].pc # "insn"
    BY DEF StopHonoured
  <2>2. n \in Outer \/ (n = Len(frames) /\ frames # <<>>)
    <3>1. frames \in Seq(Frame)
      BY <2>1 DEF IInv, TypeOK
    <3>2. n \in 1 .. Len(frames) /\ Len(frames) \in Nat
      BY <3>1
    <3>3. frames # <<>>
      BY <3>2
    <3>4. QED
      BY <3>2, <3>3 DEF Outer
  <2>3. QED
    BY <2>1, <2>2 DEF StopTop, StopOuter, Top, OnItsWayOut
<1>4. QED
  BY <1>1, <1>2, <1>3, InvAlways, PTL DEF Spec

-----------------------------------------------------------------------------
(* Errors. *)

\* A call that has not come to its first instruction.
Starting(f) == f.pc = "begin" \/ (f.pc = "clear" /\ f.next = "begin")

\* The error of a call is that of one of its instructions, and uc->invalid_error
\* is that of the innermost call: uc_emu_start resets it when it is called and
\* when it returns.
OwnError(f) ==
    /\ f.by = "error" => f.failed
    /\ f.pc = "callback" => f.next # "begin"
ErrorTop ==
    /\ exception # "guest"
    /\ invalid_error => frames # <<>> /\ Top.failed /\ ~Starting(Top)
    /\ frames # <<>> => OwnError(Top)
ErrorOuter == \A n \in Outer : OwnError(frames[n])

\* Errors in the steps of one level.
LEMMA InsideError ==
    ASSUME IInv, ErrorTop, Inside, "exception" \notin Allow
    PROVE  ErrorTop'
<1>1. frames # <<>> /\ frames' # <<>>
  BY InsideStays DEF Stays, Kept
<1>2. /\ Top \in Frame /\ OwnError(Top) /\ exception # "guest"
      /\ invalid_error => Top.failed /\ ~Starting(Top)
  BY <1>1, TopFrame DEF ErrorTop
<1>3. \A f : Put(f) => Top' = f
  BY <1>1, TopPut
<1>4. SUFFICES /\ OwnError(Top') /\ exception' # "guest"
               /\ invalid_error' => Top'.failed /\ ~Starting(Top')
  BY <1>1 DEF ErrorTop
<1>5. CASE EmuStartCount
  BY <1>1, <1>2, <1>3, <1>5 DEF EmuStartCount, At, Goto, Frame, OwnError, Starting, cpu
<1>6. CASE EnableTimer
  BY <1>1, <1>2, <1>3, <1>6 DEF EnableTimer, At, Goto, Frame, OwnError, Starting, cpu
<1>7. CASE ClearFlag
  BY <1>1, <1>2, <1>3, <1>7 DEF ClearFlag, At, Goto, Frame, OwnError, Starting, cpu
<1>8. CASE ResumeAllVcpus
  BY <1>1, <1>2, <1>3, <1>8 DEF ResumeAllVcpus, At, Goto, Frame, OwnError, Starting, cpu
<1>9. CASE TcgCpuExec
  BY <1>1, <1>2, <1>3, <1>9 DEF TcgCpuExec, Finish, GotoClearing, At, Goto, Frame, OwnError,
      Starting, cpu
<1>10. CASE HandleExceptionNone
  BY <1>1, <1>2, <1>3, <1>10 DEF HandleExceptionNone, At, Goto, Frame, OwnError, Starting, cpu
<1>11. CASE HandleExceptionExit
  BY <1>1, <1>2, <1>3, <1>11 DEF HandleExceptionExit, At, Goto, Frame, OwnError, Starting, cpu
<1>12. CASE HandleExceptionUncaught
  BY <1>1, <1>2, <1>3, <1>12 DEF HandleExceptionUncaught, At, Goto, Frame, OwnError, Starting,
      cpu
<1>13. CASE HandleExceptionCaught
  BY <1>1, <1>2, <1>3, <1>13 DEF HandleExceptionCaught, At, Goto, Frame, OwnError, Starting, cpu
<1>14. CASE HandleExceptionDone
  BY <1>1, <1>2, <1>3, <1>14 DEF HandleExceptionDone, At, Goto, Frame, OwnError, Starting, cpu
<1>15. CASE HandleInterruptHigh
  BY <1>1, <1>2, <1>3, <1>15 DEF HandleInterruptHigh, At, Goto, Frame, OwnError, Starting, cpu
<1>16. CASE HandleInterruptExit
  BY <1>1, <1>2, <1>3, <1>16 DEF HandleInterruptExit, At, Goto, Frame, OwnError, Starting, cpu
<1>17. CASE TbFind
  BY <1>1, <1>2, <1>3, <1>17 DEF TbFind, At, Goto, Frame, OwnError, Starting, cpu
<1>18. CASE CheckExitRequest
  BY <1>1, <1>2, <1>3, <1>18 DEF CheckExitRequest, At, Goto, Frame, OwnError, Starting, cpu
<1>19. CASE CheckInDelaySlot
  BY <1>1, <1>2, <1>3, <1>19 DEF CheckInDelaySlot, At, Goto, Frame, OwnError, Starting, cpu
<1>20. CASE TraceNone
  BY <1>1, <1>2, <1>3, <1>20 DEF TraceNone, At, Goto, Frame, OwnError, Starting, cpu
<1>21. CASE TraceSkip
  BY <1>1, <1>2, <1>3, <1>21 DEF TraceSkip, At, Goto, Frame, OwnError, Starting, cpu
<1>22. CASE TraceCount
  <2>1. /\ Top'.pc = "check" /\ Top'.failed = Top.failed /\ Top'.by = Top.by
        /\ UNCHANGED <<exception, invalid_error>>
    BY <1>22, CountFrame DEF TraceCount, cpu
  <2>2. QED
    BY <1>2, <2>1 DEF OwnError, Starting
<1>23. CASE TraceUser
  BY <1>1, <1>2, <1>3, <1>23 DEF TraceUser, At, Goto, Frame, OwnError, Starting, cpu
<1>24. CASE TraceNoStop
  BY <1>1, <1>2, <1>3, <1>24 DEF TraceNoStop, Revert, GotoClearing, At, Goto, Frame, OwnError,
      Starting, cpu
<1>25. CASE TraceNoStopCall
  BY <1>1, <1>2, <1>3, <1>25 DEF TraceNoStopCall, At, Goto, Frame, OwnError, Starting, cpu
<1>26. CASE TraceNoStopRevert
  BY <1>1, <1>2, <1>3, <1>26 DEF TraceNoStopRevert, Revert, GotoClearing, At, Goto, Frame,
      OwnError, Starting, cpu
<1>27. CASE CallbackReturn
  BY <1>1, <1>2, <1>3, <1>27 DEF CallbackReturn, InCallback, At, Goto, Frame, OwnError,
       Starting,
      cpu
<1>28. CASE Insn
  BY <1>1, <1>2, <1>3, <1>28 DEF Insn, Ran, At, Goto, Frame, OwnError, Starting, cpu
<1>29. CASE TbEnd
  <2>1. PICK p \in {"tb", "high"} : Ran(p)
    BY <1>29 DEF TbEnd
  <2>2. /\ Top'.pc = p /\ Top'.failed = Top.failed /\ Top'.by = Top.by
        /\ UNCHANGED <<exception, invalid_error>>
    BY <1>2, <1>3, <2>1 DEF Ran, Frame, cpu
  <2>3. QED
    BY <1>2, <2>2 DEF OwnError, Starting
<1>30. CASE Halt
  BY <1>1, <1>2, <1>3, <1>30 DEF Halt, At, Goto, Frame, OwnError, Starting, cpu
<1>31. CASE Fault
  BY <1>1, <1>2, <1>3, <1>31 DEF Fault, At, Goto, Frame, OwnError, Starting, cpu
<1>32. CASE \E e \in {"guest", "debug"} : RaiseException(e)
  BY <1>1, <1>2, <1>3, <1>32 DEF RaiseException, At, Goto, Frame, OwnError, Starting, cpu
<1>33. CASE ExecReturned
  <2>1. CASE Ended("stop")
    <3>1. Top' = [Top EXCEPT !.pc = "clear", !.todo = <<"exit_request", "high">>,
                             !.next = "exits", !.by = "stop"]
      BY <1>3, <2>1 DEF Ended
    <3>2. Top'.failed = Top.failed /\ Top'.pc = "clear" /\ Top'.next = "exits" /\ Top'.by = "stop"
      BY <1>2, <3>1 DEF Frame
    <3>3. OwnError(Top') /\ ~Starting(Top')
      BY <3>2 DEF OwnError, Starting
    <3>4. QED
      BY <1>2, <1>33, <3>2, <3>3 DEF ExecReturned, cpu
  <2>2. ASSUME GotoClearing(<<"stop_request", "exit_request">>, "verdict") \/ Goto("verdict")
        PROVE  OwnError(Top') /\ Top'.failed = Top.failed /\ ~Starting(Top')
    BY <1>2, <1>3, <2>2 DEF GotoClearing, Goto, Frame, OwnError, Starting
  <2>3. QED
    BY <1>2, <1>33, <2>1, <2>2 DEF ExecReturned, cpu
<1>34. CASE Verdict
  <2>1. ASSUME NEW why \in {"error", "hlt"}, Ended(why), why = "error" => Top.failed
        PROVE  OwnError(Top') /\ Top'.failed = Top.failed /\ ~Starting(Top')
    <3>1. Top' = [Top EXCEPT !.pc = "clear", !.todo = <<"exit_request", "high">>,
                             !.next = "exits", !.by = why]
      BY <1>3, <2>1 DEF Ended
    <3>2. Top'.failed = Top.failed /\ Top'.pc = "clear" /\ Top'.next = "exits" /\ Top'.by = why
      BY <1>2, <3>1 DEF Frame
    <3>3. QED
      BY <2>1, <3>2 DEF OwnError, Starting
  <2>2. ASSUME Finish("loop") \/ Goto("loop")
        PROVE  OwnError(Top') /\ Top'.failed = Top.failed /\ ~Starting(Top')
    BY <1>2, <1>3, <2>2 DEF Finish, GotoClearing, Goto, Frame, OwnError, Starting
  <2>3. QED
    BY <1>2, <1>34, <2>1, <2>2 DEF Verdict
<1>35. QED
  BY <1>5, <1>6, <1>7, <1>8, <1>9, <1>10, <1>11, <1>12, <1>13, <1>14, <1>15, <1>16, <1>17,
     <1>18, <1>19, <1>20, <1>21, <1>22, <1>23, <1>24, <1>25, <1>26, <1>27, <1>28, <1>29, <1>30,
     <1>31, <1>32, <1>33, <1>34 DEF Inside

\* No step moves an error to another level.
LEMMA ErrorStep ==
    ASSUME IInv, ErrorTop, ErrorOuter, [Next]_vars, "exception" \notin Allow
    PROVE  ErrorTop' /\ ErrorOuter'
<1>1. ASSUME Kept
      PROVE  ErrorOuter'
  BY <1>1 DEF Kept, ErrorOuter, Outer
<1>2. CASE Inside
  BY <1>1, <1>2, InsideError, InsideStays DEF Stays
<1>3. CASE RegWritePc \/ MemProtect \/ EmuStartRefused \/ (\E t \in Timer : TimerStep(t))
           \/ UNCHANGED vars
  <2>1. UNCHANGED <<frames, exception>> /\ (invalid_error' => invalid_error)
    BY <1>3 DEF RegWritePc, MemProtect, EmuStartRefused, EmuReset, TimerStep, vars, cpu
  <2>2. QED
    BY <2>1 DEF ErrorTop, ErrorOuter, Outer, Top
<1>4. CASE EmuStop
  <2>1. UNCHANGED <<exception, invalid_error>>
    BY <1>4 DEF EmuStop, cpu
  <2>2. CASE frames = <<>> /\ frames' = <<>>
    BY <2>1, <2>2 DEF ErrorTop, ErrorOuter, Outer
  <2>3. CASE Kept /\ Top.pc = "callback" /\ Top' = [Top EXCEPT !.asked = "user"]
    <3>1. Top \in Frame
      BY <2>3, TopFrame DEF Kept
    <3>2. /\ Top'.pc = Top.pc /\ Top'.next = Top.next /\ Top'.failed = Top.failed
          /\ Top'.by = Top.by
      BY <2>3, <3>1 DEF Frame
    <3>3. ErrorTop'
      BY <2>1, <2>3, <3>2 DEF Kept, ErrorTop, OwnError, Starting
    <3>4. QED
      BY <1>1, <2>3, <3>3
  <2>4. QED
    BY <1>4, <2>2, <2>3, StopFrame
<1>5. ASSUME NEW t \in Timer \cup {NoTimer}, NEW c \in 0 .. MaxCount, EmuStart(t, c)
      PROVE  ErrorTop' /\ ErrorOuter'
  <2>1. Pushed(NewFrame(t, c)) /\ UNCHANGED exception /\ ~invalid_error'
    BY <1>5, StartFrame DEF EmuStart, EmuReset, cpu
  <2>2. ErrorTop'
    BY <2>1 DEF Pushed, NewFrame, ErrorTop, OwnError
  <2>3. ASSUME frames # <<>>
        PROVE  OwnError(frames'[Len(frames)])
    <3>1. Top \in Frame /\ OwnError(Top)
      BY <2>3, TopFrame DEF ErrorTop
    <3>2. QED
      BY <2>1, <2>3, <3>1 DEF Pushed, Frame, OwnError
  <2>4. \A n \in Outer' : n \in Outer \/ (frames # <<>> /\ n = Len(frames))
    BY <2>1 DEF Pushed, Outer, IInv, TypeOK
  <2>5. QED
    BY <2>1, <2>2, <2>3, <2>4 DEF Pushed, ErrorOuter
<1>6. CASE Leaving
  <2>1. CASE (EmuStartNoMem \/ EmuReturn) /\ Popped
    <3>1. UNCHANGED exception /\ ~invalid_error'
      BY <2>1 DEF EmuStartNoMem, EmuReturn, At, ErrorTop, Starting, cpu
    <3>2. frames' # <<>> => OwnError(Top')
      BY <2>1 DEF Popped, ErrorOuter
    <3>3. \A n \in Outer' : n \in Outer /\ frames'[n] = frames[n]
      BY <2>1 DEF Popped, Outer, IInv, TypeOK
    <3>4. QED
      BY <3>1, <3>2, <3>3 DEF ErrorTop, ErrorOuter
  <2>2. ASSUME InvalidateExit \/ InvalidateExitDone \/ EmuLeave, Kept,
               NEW p \in {"probe", "leave", "join"}, Top' = [Top EXCEPT !.pc = p]
        PROVE  ErrorTop'
    <3>1. Top \in Frame
      BY <2>2, TopFrame DEF Kept
    <3>2. /\ Top'.pc \in {"probe", "leave", "join"} /\ Top'.failed = Top.failed
          /\ Top'.by = Top.by
      BY <2>2, <3>1 DEF Frame
    <3>3. UNCHANGED <<exception, invalid_error>>
      BY <2>2, "exception" \notin Allow DEF InvalidateExit, InvalidateExitDone, EmuLeave, cpu
    <3>4. QED
      BY <2>2, <3>2, <3>3 DEF Kept, ErrorTop, OwnError, Starting
  <2>3. QED
    BY <1>1, <1>6, <2>1, <2>2, LeaveFrame
<1>7. QED
  BY <1>2, <1>3, <1>4, <1>5, <1>6, Steps DEF UserStep

\* An emulation fails only for an instruction of its own, at every level and
\* with any timers: where the guest raises no exceptions, the only thing that
\* outlives uc_emu_start's reset of invalid_error.
THEOREM ErrorsAreLocal ==
    ASSUME "exception" \notin Allow
    PROVE  Spec => []ErrorsStayLocal
<1>1. Init => ErrorTop /\ ErrorOuter
  BY DEF Init, ErrorTop, ErrorOuter, Outer
<1>2. IInv /\ ErrorTop /\ ErrorOuter /\ [Next]_vars => ErrorTop' /\ ErrorOuter'
  BY ErrorStep
<1>3. IInv /\ ErrorTop /\ ErrorOuter => ErrorsStayLocal
  <2>1. SUFFICES ASSUME IInv, ErrorTop, ErrorOuter, NEW n \in DOMAIN frames
                 PROVE  OwnError(frames[n])
    BY DEF ErrorsStayLocal, OwnError
  <2>2. frames \in Seq(Frame)
    BY <2>1 DEF IInv, TypeOK
  <2>3. n \in 1 .. Len(frames) /\ Len(frames) \in Nat
    BY <2>2
  <2>4. frames # <<>>
    BY <2>3
  <2>5. QED
    BY <2>1, <2>3, <2>4 DEF ErrorTop, ErrorOuter, Top, Outer
<1>4. QED
  BY <1>1, <1>2, <1>3, InvAlways, PTL DEF Spec

=============================================================================
