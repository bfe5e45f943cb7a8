--------------------------- MODULE EmuCountProofs ---------------------------
(***************************************************************************)
(* Safety of EmuControl where callbacks start no nested emulation: timer   *)
(* threads are joined, stops are asked for, and counts are exact.          *)
(***************************************************************************)
EXTENDS EmuControlProofs

-----------------------------------------------------------------------------
(* Timers. *)

\* stop_request is about to be cleared, by uc_emu_start itself or because it
\* was made in an IT block.
Reverting(f) ==
    \/ f.pc = "callback" /\ f.next = "revert"
    \/ f.pc = "revert"
    \/ f.pc = "clear" /\ Head(f.todo) = "stop_request"

\* Without a timer, a request to stop was made by a callback or by the counter.
Asked(f, fl) ==
    f.timer = NoTimer /\ f.asked = "no" =>
        f.by # "stop" /\ (fl["stop_request"] => Reverting(f))
\* enable_emu_timer is not passed twice.
Places(f) ==
    /\ f.pc = "callback" => f.next \notin {"begin", "timer"}
    /\ f.pc = "clear" => f.next \notin {"callback", "timer"}
Started(f) == ~Starting(f) /\ f.pc # "timer"

\* Without nested emulations there is one frame at most, and a timer thread
\* that exists is the one of that frame and the one uc->timer names.
Threads == \A t \in Timer : thread[t] # "off" =>
              frames # <<>> /\ Top.timer = t /\ timer = t /\ Started(Top)
OneFrame == Len(frames) <= 1 /\ (frames # <<>> => Asked(Top, flag) /\ Places(Top))

\* The innermost frame goes on.
Onwards ==
    /\ Asked(Top', flag') /\ Places(Top') /\ Top'.timer = Top.timer
    /\ Started(Top) => Started(Top')

\* The steps of one level make no stop request that nobody asked for.
LEMMA InsideOnwards ==
    ASSUME IInv, OneFrame, Inside
    PROVE  Onwards
<1>1. frames # <<>> /\ frames' # <<>>
  BY InsideStays DEF Stays, Kept
<1>2. Top \in Frame /\ FrameOK(Top) /\ Asked(Top, flag) /\ Places(Top)
  BY <1>1, TopFrame DEF OneFrame
<1>3. \A f : Put(f) => Top' = f
  BY <1>1, TopPut
<1>4. flag \in [Flag -> BOOLEAN] /\ "stop_request" \in Flag
  BY DEF IInv, TypeOK, Flag
<1>5. ASSUME NEW p, Top' = [Top EXCEPT !.pc = p], UNCHANGED flag,
             p \notin {"callback", "clear", "begin", "timer"},
             p = "revert" \/ ~Reverting(Top) \/ ~flag["stop_request"]
      PROVE  Onwards
  <2>1. Top'.pc = p /\ Top'.timer = Top.timer /\ Top'.asked = Top.asked /\ Top'.by = Top.by
    BY <1>2, <1>5 DEF Frame
  <2>2. QED
    BY <1>2, <1>5, <2>1 DEF Onwards, Asked, Places, Started, Starting, Reverting
<1>6. ASSUME NEW fs, NEW p \in {"loop", "verdict", "nostop", "insn", "exits"},
             GotoClearing(fs, p), UNCHANGED flag,
             ~Reverting(Top) \/ Head(fs) = "stop_request"
      PROVE  Onwards
  <2>1. Top' = [Top EXCEPT !.pc = "clear", !.todo = fs, !.next = p]
    BY <1>3, <1>6 DEF GotoClearing
  <2>2. /\ Top'.pc = "clear" /\ Top'.todo = fs /\ Top'.next = p /\ Top'.timer = Top.timer
        /\ Top'.asked = Top.asked /\ Top'.by = Top.by
    BY <1>2, <2>1 DEF Frame
  <2>3. QED
    BY <1>2, <1>6, <2>2 DEF Onwards, Asked, Places, Started, Starting, Reverting
<1>7. ASSUME NEW why \in {"stop", "error", "hlt"}, Ended(why), UNCHANGED flag,
             Top.pc \in {"return", "verdict"}, why = "stop" => flag["stop_request"]
      PROVE  Onwards
  <2>1. Top' = [Top EXCEPT !.pc = "clear", !.todo = <<"exit_request", "high">>,
                           !.next = "exits", !.by = why]
    BY <1>3, <1>7 DEF Ended
  <2>2. /\ Top'.pc = "clear" /\ Top'.next = "exits" /\ Top'.timer = Top.timer
        /\ Top'.asked = Top.asked /\ Top'.by = why
    BY <1>2, <2>1 DEF Frame
  <2>3. ~Reverting(Top)
    BY <1>7 DEF Reverting
  <2>4. QED
    BY <1>2, <1>7, <2>2, <2>3 DEF Onwards, Asked, Places, Started, Starting
<1>8. CASE EmuStartCount
  BY <1>1, <1>2, <1>3, <1>4, <1>8 DEF EmuStartCount, At, Goto, Frame, Onwards, Asked, Places,
      Started, Starting, Reverting, cpu
<1>9. CASE EnableTimer
  BY <1>1, <1>2, <1>3, <1>4, <1>9 DEF EnableTimer, At, Goto, Frame, Onwards, Asked, Places,
      Started, Starting, Reverting, cpu
<1>10. CASE ClearFlag
  <2>1. Top.pc = "clear" /\ flag' = Clear({Head(Top.todo)})
    BY <1>10 DEF ClearFlag, At
  <2>2. flag'["stop_request"] <=> flag["stop_request"] /\ Head(Top.todo) # "stop_request"
    BY <1>4, <2>1 DEF Clear
  <2>3. CASE Top' = [Top EXCEPT !.pc = Top.next]
    <3>1. /\ Top'.pc = Top.next /\ Top'.next = Top.next /\ Top'.timer = Top.timer
          /\ Top'.asked = Top.asked /\ Top'.by = Top.by
      BY <1>2, <2>3 DEF Frame
    <3>2. Top.next \notin {"clear", "callback", "timer"}
      BY <1>2, <2>1 DEF FrameOK, Places
    <3>3. Asked(Top', flag')
      BY <1>2, <2>1, <2>2, <3>1 DEF Asked, Reverting
    <3>4. QED
      BY <2>1, <3>1, <3>2, <3>3 DEF Onwards, Places, Started, Starting
  <2>4. CASE Top' = [Top EXCEPT !.todo = Tail(Top.todo)]
    <3>1. /\ Top'.pc = "clear" /\ Top'.next = Top.next /\ Top'.timer = Top.timer
          /\ Top'.asked = Top.asked /\ Top'.by = Top.by
      BY <1>2, <2>1, <2>4 DEF Frame
    <3>2. Asked(Top', flag')
      BY <1>2, <2>1, <2>2, <3>1 DEF Asked, Reverting
    <3>3. QED
      BY <1>2, <2>1, <3>1, <3>2 DEF Onwards, Places, Started, Starting
  <2>5. CASE Tail(Top.todo) = <<>>
    BY <1>3, <1>10, <2>3, <2>5 DEF ClearFlag, Goto
  <2>6. CASE Tail(Top.todo) # <<>>
    <3>1. DEFINE g == [Top EXCEPT !.todo = Tail(Top.todo)]
    <3>2. Put(g) /\ UNCHANGED nested_level
      BY <1>10, <2>6 DEF ClearFlag
    <3> HIDE DEF g
    <3>3. Top' = g
      BY <1>3, <3>2
    <3>4. QED
      BY <2>4, <3>3 DEF g
  <2>7. QED
    BY <2>5, <2>6
<1>11. CASE ResumeAllVcpus
  BY <1>1, <1>2, <1>3, <1>4, <1>11 DEF ResumeAllVcpus, At, Goto, Frame, Onwards, Asked, Places,
      Started, Starting, Reverting, cpu, Set, Clear, cpu_exit
<1>12. CASE TcgCpuExec
  <2>1. ~Reverting(Top) /\ Top.pc = "loop"
    BY <1>12 DEF TcgCpuExec, At, Reverting
  <2>2. CASE stopped
    BY <1>6, <1>12, <2>1, <2>2 DEF TcgCpuExec, Finish
  <2>3. CASE ~stopped
    BY <1>1, <1>2, <1>3, <1>4, <1>12, <2>1, <2>3
       DEF TcgCpuExec, Goto, Frame, Clear, Onwards, Asked, Places, Started, Starting
  <2>4. QED
    BY <2>2, <2>3
<1>13. CASE HandleExceptionNone
  BY <1>3, <1>5, <1>13 DEF HandleExceptionNone, At, Goto, Reverting
<1>14. CASE HandleExceptionExit
  BY <1>1, <1>2, <1>3, <1>4, <1>14 DEF HandleExceptionExit, At, Goto, Frame, Onwards, Asked,
      Places, Started, Starting, Reverting, cpu
<1>15. CASE HandleExceptionUncaught
  BY <1>1, <1>2, <1>3, <1>4, <1>15 DEF HandleExceptionUncaught, At, Goto, Frame, Onwards, Asked,
      Places, Started, Starting, Reverting, cpu
<1>16. CASE HandleExceptionCaught
  BY <1>1, <1>2, <1>3, <1>4, <1>16 DEF HandleExceptionCaught, At, Goto, Frame, Onwards, Asked,
      Places, Started, Starting, Reverting, cpu
<1>17. CASE HandleExceptionDone
  BY <1>3, <1>5, <1>17 DEF HandleExceptionDone, At, Goto, Reverting
<1>18. CASE HandleInterruptHigh
  BY <1>1, <1>2, <1>3, <1>4, <1>18 DEF HandleInterruptHigh, At, Goto, Frame, Onwards, Asked,
      Places, Started, Starting, Reverting, cpu, Set, Clear, cpu_exit
<1>19. CASE HandleInterruptExit
  BY <1>1, <1>2, <1>3, <1>4, <1>19 DEF HandleInterruptExit, At, Goto, Frame, Onwards, Asked,
      Places, Started, Starting, Reverting, cpu, Set, Clear, cpu_exit
<1>20. CASE TbFind
  BY <1>3, <1>5, <1>20 DEF TbFind, At, Goto, Reverting
<1>21. CASE CheckExitRequest
  BY <1>3, <1>5, <1>21 DEF CheckExitRequest, At, Goto, Reverting
<1>22. CASE CheckInDelaySlot
  BY <1>3, <1>5, <1>22 DEF CheckInDelaySlot, At, Goto, Reverting
<1>23. CASE TraceNone
  BY <1>3, <1>5, <1>23 DEF TraceNone, At, Goto, Reverting
<1>24. CASE TraceSkip
  BY <1>3, <1>5, <1>24 DEF TraceSkip, At, Goto, Reverting
<1>25. CASE TraceCount
  <2>1. /\ Top'.pc = "check" /\ Top'.by = Top.by /\ Top'.timer = Top.timer
        /\ Exceeded => Top'.asked # "no"
        /\ ~Exceeded => Top'.asked = Top.asked /\ UNCHANGED flag
    BY <1>25, CountFrame
  <2>2. ~Reverting(Top)
    BY <1>25 DEF TraceCount, At, Reverting
  <2>3. QED
    BY <1>2, <2>1, <2>2 DEF Onwards, Asked, Places, Started, Starting
<1>26. CASE TraceUser
  BY <1>1, <1>2, <1>3, <1>4, <1>26 DEF TraceUser, At, Goto, Frame, Onwards, Asked, Places,
      Started, Starting, Reverting, cpu, hook_count_cb
<1>27. CASE TraceNoStop
  <2>1. UNCHANGED flag /\ Top.pc \in {"trace", "revert"}
    BY <1>27 DEF TraceNoStop, At
  <2>2. CASE flag["stop_request"]
    BY <1>6, <1>27, <2>1, <2>2 DEF TraceNoStop, Revert
  <2>3. CASE ~flag["stop_request"]
    BY <1>3, <1>5, <1>27, <2>1, <2>3 DEF TraceNoStop, Revert, Goto
  <2>4. QED
    BY <2>2, <2>3
<1>28. CASE TraceNoStopCall
  BY <1>1, <1>2, <1>3, <1>4, <1>28 DEF TraceNoStopCall, At, Goto, Frame, Onwards, Asked, Places,
      Started, Starting, Reverting, cpu, hook_count_cb
<1>29. CASE TraceNoStopRevert
  <2>1. UNCHANGED flag /\ Top.pc \in {"trace", "revert"}
    BY <1>29 DEF TraceNoStopRevert, At
  <2>2. CASE flag["stop_request"]
    BY <1>6, <1>29, <2>1, <2>2 DEF TraceNoStopRevert, Revert
  <2>3. CASE ~flag["stop_request"]
    BY <1>3, <1>5, <1>29, <2>1, <2>3 DEF TraceNoStopRevert, Revert, Goto
  <2>4. QED
    BY <2>2, <2>3
<1>30. CASE CallbackReturn
  <2>1. Top.pc = "callback" /\ UNCHANGED flag /\ Top' = [Top EXCEPT !.pc = Top.next]
    BY <1>3, <1>30 DEF CallbackReturn, InCallback, At, Goto
  <2>2. /\ Top'.pc = Top.next /\ Top'.timer = Top.timer /\ Top'.asked = Top.asked
        /\ Top'.by = Top.by /\ Top'.next = Top.next
    BY <1>2, <2>1 DEF Frame
  <2>3. Top.next \notin {"clear", "begin", "timer"}
    BY <1>2, <2>1 DEF FrameOK, Places
  <2>4. QED
    BY <1>2, <2>1, <2>2, <2>3 DEF Onwards, Asked, Places, Started, Starting, Reverting
<1>31. CASE Insn
  BY <1>1, <1>2, <1>3, <1>4, <1>31 DEF Insn, Ran, At, Goto, Frame, Onwards, Asked, Places,
      Started, Starting, Reverting, cpu
<1>32. CASE TbEnd
  <2>1. PICK p \in {"tb", "high"} : Ran(p)
    BY <1>32 DEF TbEnd
  <2>2. /\ Top'.pc = p /\ Top'.timer = Top.timer /\ Top'.asked = Top.asked /\ Top'.by = Top.by
        /\ UNCHANGED flag /\ Top.pc = "insn"
    BY <1>2, <1>3, <2>1 DEF Ran, Frame, At
  <2>3. QED
    BY <1>2, <2>2 DEF Onwards, Asked, Places, Started, Starting, Reverting
<1>33. CASE Halt
  BY <1>3, <1>5, <1>33 DEF Halt, At, Goto, Reverting
<1>34. CASE Fault
  BY <1>1, <1>2, <1>3, <1>4, <1>34 DEF Fault, At, Goto, Frame, Onwards, Asked, Places, Started,
      Starting, Reverting, cpu, Set, Clear, cpu_exit
<1>35. CASE \E e \in {"guest", "debug"} : RaiseException(e)
  BY <1>1, <1>2, <1>3, <1>4, <1>35 DEF RaiseException, At, Goto, Frame, Onwards, Asked, Places,
      Started, Starting, Reverting, cpu
<1>36. CASE ExecReturned
  <2>1. UNCHANGED flag /\ Top.pc = "return" /\ ~Reverting(Top)
    BY <1>36 DEF ExecReturned, At, Reverting
  <2>2. \/ GotoClearing(<<"stop_request", "exit_request">>, "verdict")
        \/ Ended("stop") /\ flag["stop_request"]
        \/ Goto("verdict")
    BY <1>36 DEF ExecReturned
  <2>3. QED
    BY <1>3, <1>5, <1>6, <1>7, <2>1, <2>2 DEF Goto
<1>37. CASE Verdict
  <2>1. UNCHANGED flag /\ Top.pc = "verdict" /\ ~Reverting(Top)
    BY <1>37 DEF Verdict, At, Reverting
  <2>2. (\E why \in {"error", "hlt"} : Ended(why)) \/ Finish("loop") \/ Goto("loop")
    BY <1>37 DEF Verdict
  <2>3. QED
    BY <1>3, <1>5, <1>6, <1>7, <2>1, <2>2 DEF Goto, Finish
<1>38. QED
  BY <1>8, <1>9, <1>10, <1>11, <1>12, <1>13, <1>14, <1>15, <1>16, <1>17, <1>18, <1>19, <1>20,
     <1>21, <1>22, <1>23, <1>24, <1>25, <1>26, <1>27, <1>28, <1>29, <1>30, <1>31, <1>32, <1>33,
     <1>34, <1>35, <1>36, <1>37 DEF Inside

\* A timer thread is created once, after the call has been set up.
LEMMA InsideThreads ==
    ASSUME IInv, OneFrame, Threads, Inside
    PROVE  Threads'
<1>1. Onwards /\ frames # <<>> /\ frames' # <<>>
  BY InsideOnwards, InsideStays DEF Stays, Kept
<1>2. CASE EnableTimer
  <2>1. Top \in Frame /\ Top.pc = "timer" /\ thread \in [Timer -> Where]
    BY <1>1, <1>2, TopFrame DEF EnableTimer, At, IInv, TypeOK
  <2>2. \A t \in Timer : thread[t] = "off"
    BY <2>1 DEF Threads, Started
  <2>3. Top' = [Top EXCEPT !.pc = "resume"]
    BY <1>1, <1>2, TopPut DEF EnableTimer, Goto
  <2>4. Started(Top') /\ Top'.timer = Top.timer
    BY <2>1, <2>3 DEF Frame, Started, Starting
  <2>5. CASE Top.timer = NoTimer
    BY <1>2, <2>2, <2>5 DEF EnableTimer, Threads
  <2>6. CASE Top.timer # NoTimer
    <3>1. timer' = Top.timer /\ thread' = [thread EXCEPT ![Top.timer] = "wait"]
      BY <1>2, <2>6 DEF EnableTimer
    <3>2. \A t \in Timer : thread'[t] # "off" => t = Top.timer
      BY <2>1, <2>2, <3>1
    <3>3. QED
      BY <1>1, <2>4, <3>1, <3>2 DEF Threads
  <2>7. QED
    BY <2>5, <2>6
<1>3. CASE ~EnableTimer
  <2>1. UNCHANGED <<timer, thread>>
    BY <1>3 DEF Inside, EmuStartCount, ClearFlag, ResumeAllVcpus, TcgCpuExec,
         HandleExceptionNone, HandleExceptionExit, HandleExceptionUncaught,
         HandleExceptionCaught, HandleExceptionDone, HandleInterruptHigh,
         HandleInterruptExit, TbFind, CheckExitRequest, CheckInDelaySlot, TraceNone,
         TraceSkip, TraceCount, TraceUser, TraceNoStop, TraceNoStopCall,
         TraceNoStopRevert, CallbackReturn, Insn, TbEnd, Ran, Halt, Fault,
         RaiseException, ExecReturned, Verdict, timing
  <2>2. QED
    BY <1>1, <2>1 DEF Threads, Onwards
<1>4. QED
  BY <1>2, <1>3

\* No step leaves a timer thread behind.
LEMMA ThreadsStep ==
    ASSUME IInv, OneFrame, Threads, [Next]_vars, "nest" \notin Allow, "protect" \notin Allow
    PROVE  OneFrame' /\ Threads'
<1>1. thread \in [Timer -> Where] /\ flag \in [Flag -> BOOLEAN] /\ "stop_request" \in Flag
  BY DEF IInv, TypeOK, Flag
<1>2. CASE Inside
  BY <1>2, InsideThreads, InsideOnwards, InsideStays DEF Stays, Kept, Onwards, OneFrame
<1>3. CASE RegWritePc \/ UNCHANGED vars
  <2>1. UNCHANGED <<frames, timer, thread>> /\ flag'["stop_request"] = flag["stop_request"]
    BY <1>1, <1>3 DEF RegWritePc, Set, break_translation_loop, cpu_exit, timing, vars
  <2>2. QED
    BY <2>1 DEF OneFrame, Threads, Top, Asked
<1>4. CASE MemProtect \/ EmuStartRefused
  BY <1>4 DEF MemProtect, EmuStartRefused
<1>5. ASSUME NEW t \in Timer, TimerStep(t)
      PROVE  OneFrame' /\ Threads'
  <2>1. thread[t] # "off" /\ UNCHANGED <<frames, timer>>
    BY <1>5 DEF TimerStep, TimerLoop, TimerFinal, TimerStop, TimerBreak, TimerExit, TimerHigh
  <2>2. \A u \in Timer : thread'[u] # "off" => thread[u] # "off"
    BY <1>1, <1>5 DEF TimerStep, TimerLoop, TimerFinal, TimerStop, TimerBreak, TimerExit,
         TimerHigh
  <2>3. frames # <<>> /\ Top.timer # NoTimer /\ Top' = Top
    BY <2>1, TimerAssumption DEF Threads, Top
  <2>4. QED
    BY <2>1, <2>2, <2>3 DEF OneFrame, Threads, Asked
<1>6. CASE EmuStop
  <2>1. UNCHANGED <<timer, thread>>
    BY <1>6 DEF EmuStop, timing
  <2>2. CASE frames = <<>> /\ frames' = <<>>
    BY <2>1, <2>2 DEF OneFrame, Threads
  <2>3. CASE Kept /\ Top.pc = "callback" /\ Top' = [Top EXCEPT !.asked = "user"]
    <3>1. Top \in Frame
      BY <2>3, TopFrame DEF Kept
    <3>2. /\ Top'.pc = Top.pc /\ Top'.next = Top.next /\ Top'.timer = Top.timer
          /\ Top'.asked = "user"
      BY <2>3, <3>1 DEF Frame
    <3>3. QED
      BY <2>1, <2>3, <3>2 DEF Kept, OneFrame, Threads, Asked, Places, Started, Starting
  <2>4. QED
    BY <1>6, <2>2, <2>3, StopFrame
<1>7. ASSUME NEW t \in Timer \cup {NoTimer}, NEW c \in 0 .. MaxCount, EmuStart(t, c)
      PROVE  OneFrame' /\ Threads'
  <2>1. Pushed(NewFrame(t, c)) /\ UNCHANGED <<timer, thread>> /\ frames = <<>>
    BY <1>7, StartFrame DEF EmuStart
  <2>2. Threads'
    BY <2>1 DEF Threads
  <2>3. Len(frames') = 1 /\ Top' = NewFrame(t, c)
    BY <2>1 DEF Pushed
  <2>4. Head(<<"stop_request">>) = "stop_request"
    OBVIOUS
  <2>5. /\ Top'.pc = "clear" /\ Top'.next = "begin" /\ Top'.todo = <<"stop_request">>
        /\ Top'.by = "none"
    BY <2>3 DEF NewFrame
  <2>6. Asked(Top', flag') /\ Places(Top')
    BY <2>4, <2>5 DEF Asked, Places, Reverting
  <2>7. QED
    BY <2>2, <2>3, <2>6 DEF OneFrame
<1>8. CASE Leaving
  <2>1. frames # <<>> /\ Top \in Frame /\ frames \in Seq(Frame) /\ Len(frames) \in Nat
    BY <1>8, LeaveFrame, TopFrame DEF IInv, TypeOK
  <2>2. CASE (EmuStartNoMem \/ EmuReturn) /\ Popped
    <3>1. frames' \in Seq(Frame)
      BY <1>8, LeavingLevels DEF IInv, TypeOK
    <3>2. Len(frames') = 0 /\ frames' = <<>>
      BY <2>1, <2>2, <3>1 DEF Popped, OneFrame
    <3>3. \A t \in Timer : thread'[t] = "off"
      <4>1. CASE EmuStartNoMem
        BY <4>1 DEF EmuStartNoMem, At, Threads, Started, Starting, timing
      <4>2. CASE EmuReturn /\ Top.timer = NoTimer
        BY <4>2, TimerAssumption DEF EmuReturn, Threads
      <4>3. CASE EmuReturn /\ Top.timer # NoTimer
        <5>1. thread' = [thread EXCEPT ![timer] = "off"]
          BY <4>3 DEF EmuReturn
        <5>2. \A t \in Timer : t # timer => thread[t] = "off"
          BY DEF Threads
        <5>3. QED
          BY <1>1, <5>1, <5>2
      <4>4. QED
        BY <2>2, <4>1, <4>2, <4>3
    <3>4. QED
      BY <3>2, <3>3 DEF OneFrame, Threads
  <2>3. ASSUME InvalidateExit \/ InvalidateExitDone \/ EmuLeave, Kept,
               NEW p \in {"probe", "leave", "join"}, Top' = [Top EXCEPT !.pc = p]
        PROVE  OneFrame' /\ Threads'
    <3>1. /\ Top'.pc = p /\ Top'.timer = Top.timer /\ Top'.asked = Top.asked
          /\ Top'.by = Top.by
      BY <2>1, <2>3 DEF Frame
    <3>2. UNCHANGED <<flag, timer, thread>> /\ Top.pc \in {"exits", "probe", "leave"}
      BY <2>3 DEF InvalidateExit, InvalidateExitDone, EmuLeave, At, timing
    <3>3. Asked(Top', flag') /\ Places(Top')
      BY <2>1, <3>1, <3>2 DEF OneFrame, Asked, Places, Reverting
    <3>4. QED
      BY <2>1, <2>3, <3>1, <3>2, <3>3 DEF Kept, OneFrame, Threads, Started, Starting
  <2>4. QED
    BY <1>8, <2>2, <2>3, LeaveFrame
<1>9. QED
  BY <1>2, <1>3, <1>4, <1>5, <1>6, <1>7, <1>8, Steps DEF UserStep

\* One call at a time, and its timer with it.
LEMMA ThreadsAlways ==
    ASSUME "nest" \notin Allow, "protect" \notin Allow
    PROVE  Spec => [](IInv /\ OneFrame /\ Threads)
<1>1. Init => OneFrame /\ Threads
  BY DEF Init, OneFrame, Threads
<1>2. IInv /\ OneFrame /\ Threads /\ [Next]_vars => OneFrame' /\ Threads'
  BY ThreadsStep
<1>3. QED
  BY <1>1, <1>2, InvAlways, PTL DEF Spec

\* Where no callback starts a nested emulation or takes EXEC away from its page,
\* a timer thread does not outlive the uc_emu_start that created it, so none is
\* left to stop a later emulation.
THEOREM TimersAreJoined ==
    ASSUME "nest" \notin Allow, "protect" \notin Allow
    PROVE  Spec => []TimerJoined
<1>1. IInv /\ OneFrame /\ Threads => TimerJoined
  <2>1. SUFFICES ASSUME IInv, Threads
                 PROVE  TimerJoined
    OBVIOUS
  <2>2. frames # <<>> => Len(frames) \in DOMAIN frames
    BY <2>1 DEF IInv, TypeOK
  <2>3. QED
    BY <2>1, <2>2 DEF Threads, TimerJoined, Top
<1>2. QED
  BY <1>1, ThreadsAlways, PTL

\* There, an emulation without a timeout is stopped only by one of its callbacks
\* or by the counter, for every history of emulations with timeouts before it.
THEOREM StopsAreAskedFor ==
    ASSUME "nest" \notin Allow, "protect" \notin Allow
    PROVE  Spec => []StopsOnlyWhenAsked
<1>1. IInv /\ OneFrame /\ Threads => StopsOnlyWhenAsked
  <2>1. SUFFICES ASSUME IInv, OneFrame
                 PROVE  StopsOnlyWhenAsked
    OBVIOUS
  <2>2. frames \in Seq(Frame)
    BY <2>1 DEF IInv, TypeOK
  <2>3. \A n \in DOMAIN frames : n = Len(frames) /\ frames # <<>>
    BY <2>1, <2>2 DEF OneFrame
  <2>4. QED
    BY <2>1, <2>3 DEF OneFrame, StopsOnlyWhenAsked, Top, Asked
<1>2. QED
  BY <1>1, ThreadsAlways, PTL

-----------------------------------------------------------------------------
(* Counts. *)

\* A frame with a count and no timeout.
Counts(f) == f.count > 0 /\ f.timer = NoTimer

\* The counter is the number of instructions executed, with the one whose hook
\* has run before it; when the counter has stopped the call, there are count.
Hooked(f) == f.pc \in {"check", "insn", "callback"}
Counter(f) ==
    /\ f.executed <= f.count /\ (f.asked = "count" => f.executed = f.count)
    /\ f.asked = "no" /\ ~invalid_error =>
           /\ emu_counter = IF Hooked(f) THEN f.executed + 1 ELSE f.executed
           /\ Hooked(f) => emu_counter <= f.count
    /\ ~Starting(f) => emu_count = f.count /\ count_hook

\* Nothing makes cpu_exec return between the hook and the instruction.
Undisturbed(f) ==
    f.asked = "no" =>
        /\ f.pc \in {"interrupt", "find", "tb", "trace", "check", "insn", "callback"} => ~flag["high"]
        /\ f.pc \in {"find", "tb", "trace", "check", "insn", "callback"} => ~flag["exit_request"]

\* An instruction that was not executed after its hook has ended the emulation.
Failing(f) ==
    invalid_error =>
        \/ f.pc = "exception" /\ (flag["exit_request"] \/ exception # "none")
        \/ f.pc \in {"high", "interrupt"} /\ flag["exit_request"]
        \/ f.pc \in {"return", "verdict", "exits", "probe", "leave", "join"}
        \/ f.pc = "clear" /\ f.next \in {"verdict", "exits"}

CodeHookOnly(f) == f.pc # "handled" /\ (f.pc = "callback" => f.next = "check")
CountOK(f) == Counter(f) /\ Undisturbed(f) /\ Failing(f) /\ CodeHookOnly(f)
CountTop == frames # <<>> /\ Counts(Top) => CountOK(Top)

\* A step that neither calls the hooks nor executes the instruction.
Idle ==
    /\ Top'.count = Top.count /\ Top'.timer = Top.timer /\ Top'.executed = Top.executed
    /\ Top'.asked = Top.asked /\ UNCHANGED <<emu_counter, invalid_error>>
    /\ ~Starting(Top) => ~Starting(Top') /\ UNCHANGED <<emu_count, count_hook>>
    /\ Hooked(Top') = Hooked(Top)

\* It keeps the counter right.
LEMMA IdleCounter ==
    ASSUME Counter(Top), Idle,
           Starting(Top) => Starting(Top') \/ (emu_count' = Top.count /\ count_hook')
    PROVE  Counter(Top)'
BY DEF Idle, Counter

\* Going to p with the fields a step may change.
LEMMA GotoFields ==
    ASSUME IInv, frames # <<>>, NEW p, Goto(p)
    PROVE  /\ Top'.pc = p /\ Top'.next = Top.next /\ Top'.count = Top.count
           /\ Top'.timer = Top.timer /\ Top'.executed = Top.executed /\ Top'.asked = Top.asked
<1>1. Top \in Frame /\ Top' = [Top EXCEPT !.pc = p]
  BY TopFrame, TopPut DEF Goto
<1>2. QED
  BY <1>1 DEF Frame

\* The same by way of clearing flags, at the end of a call as well.
LEMMA ClearingFields ==
    ASSUME IInv, frames # <<>>, NEW fs, NEW p,
           GotoClearing(fs, p) \/ \E why : Ended(why) /\ p = "exits"
    PROVE  /\ Top'.pc = "clear" /\ Top'.next = p /\ Top'.count = Top.count
           /\ Top'.timer = Top.timer /\ Top'.executed = Top.executed /\ Top'.asked = Top.asked
<1>1. Top \in Frame
  BY TopFrame
<1>2. CASE GotoClearing(fs, p)
  <2>1. Top' = [Top EXCEPT !.pc = "clear", !.todo = fs, !.next = p]
    BY <1>2, TopPut DEF GotoClearing
  <2>2. QED
    BY <1>1, <2>1 DEF Frame
<1>3. ASSUME NEW why, Ended(why), p = "exits"
      PROVE  /\ Top'.pc = "clear" /\ Top'.next = p /\ Top'.count = Top.count
             /\ Top'.timer = Top.timer /\ Top'.executed = Top.executed /\ Top'.asked = Top.asked
  <2>1. Top' = [Top EXCEPT !.pc = "clear", !.todo = <<"exit_request", "high">>,
                           !.next = "exits", !.by = why]
    BY <1>3, TopPut DEF Ended
  <2>2. QED
    BY <1>1, <1>3, <2>1 DEF Frame
<1>4. QED
  BY <1>2, <1>3

\* The circumstances of a plain emulation: stops, faults and timeouts.
Plain == Allow \subseteq {"stop", "fault", "nomem", "early"}

\* The counter in the steps of one level.
LEMMA InsideCount ==
    ASSUME IInv, StopTop, ErrorTop, OneFrame, CountTop, Inside, Plain
    PROVE  CountTop'
<1>1. frames # <<>> /\ frames' # <<>>
  BY InsideStays DEF Stays, Kept
<1>2. Top \in Frame /\ flag \in [Flag -> BOOLEAN] /\ {"stop_request", "exit_request", "high"} \subseteq Flag
  BY <1>1, TopFrame DEF IInv, TypeOK, Flag
<1>3. /\ Stoppable(Top) /\ (Top.asked # "no" => OnItsWayOut(Top, flag, exception))
      /\ exception # "guest"
  BY <1>1 DEF StopTop, ErrorTop
<1>4. {"setpc", "protect", "nest", "exception", "it", "delay", "debug"} \cap Allow = {}
  BY DEF Plain
<1>5. Top.timer = NoTimer /\ Top.asked = "no" /\ flag["stop_request"] => Reverting(Top)
  BY <1>1 DEF OneFrame, Asked
<1>6. /\ Top.count \in 0 .. MaxCount /\ Top.executed \in 0 .. MaxCount + 1
      /\ emu_counter \in 0 .. MaxCount + 1 /\ emu_count \in 0 .. MaxCount
      /\ MaxCount \in Nat
  BY <1>2, CountAssumption DEF Frame, IInv, TypeOK
<1>7. ASSUME Counts(Top)
      PROVE  Counter(Top) /\ Undisturbed(Top) /\ Failing(Top) /\ CodeHookOnly(Top)
  BY <1>1, <1>7 DEF CountTop, CountOK
<1>8. SUFFICES Counts(Top') => CountOK(Top)'
  BY DEF CountTop
<1>9. CASE EmuStartCount
  <2>1. /\ Top'.count = Top.count /\ Top'.timer = Top.timer
        /\ Top'.executed = Top.executed /\ Top'.asked = Top.asked
        /\ Top.pc = "begin" /\ Top'.pc = "timer" /\ emu_count' = Top.count
        /\ (Counts(Top) => count_hook') /\ UNCHANGED <<emu_counter, invalid_error>>
    BY <1>1, <1>2, <1>9, GotoFields DEF EmuStartCount, At, cpu, Counts
  <2>2. SUFFICES ASSUME Counts(Top)
                 PROVE  CountOK(Top)'
    BY <2>1 DEF Counts
  <2>3. Counter(Top)'
    BY <1>7, <2>1, <2>2, IdleCounter DEF Idle, Starting, Hooked
  <2>4. Undisturbed(Top)' /\ Failing(Top)' /\ CodeHookOnly(Top)'
    BY <1>7, <2>1, <2>2 DEF Undisturbed, Failing, CodeHookOnly
  <2>5. QED
    BY <2>3, <2>4 DEF CountOK
<1>10. CASE EnableTimer
  <2>1. /\ Top'.count = Top.count /\ Top'.timer = Top.timer
        /\ Top'.executed = Top.executed /\ Top'.asked = Top.asked
        /\ Top.pc = "timer" /\ Top'.pc = "resume"
        /\ UNCHANGED <<emu_counter, emu_count, count_hook, invalid_error>>
    BY <1>1, <1>2, <1>10, GotoFields DEF EnableTimer, At, cpu, counting
  <2>2. SUFFICES ASSUME Counts(Top)
                 PROVE  CountOK(Top)'
    BY <2>1 DEF Counts
  <2>3. Counter(Top)'
    BY <1>7, <2>1, <2>2, IdleCounter DEF Idle, Starting, Hooked
  <2>4. Undisturbed(Top)' /\ Failing(Top)' /\ CodeHookOnly(Top)'
    BY <1>7, <2>1, <2>2 DEF Undisturbed, Failing, CodeHookOnly
  <2>5. QED
    BY <2>3, <2>4 DEF CountOK
<1>11. CASE ResumeAllVcpus
  <2>1. /\ Top'.count = Top.count /\ Top'.timer = Top.timer
        /\ Top'.executed = Top.executed /\ Top'.asked = Top.asked
        /\ Top.pc = "resume" /\ Top'.pc = "loop"
        /\ UNCHANGED <<emu_counter, emu_count, count_hook, invalid_error>>
    BY <1>1, <1>2, <1>11, GotoFields DEF ResumeAllVcpus, At, cpu, counting
  <2>2. SUFFICES ASSUME Counts(Top)
                 PROVE  CountOK(Top)'
    BY <2>1 DEF Counts
  <2>3. Counter(Top)'
    BY <1>7, <2>1, <2>2, IdleCounter DEF Idle, Starting, Hooked
  <2>4. Undisturbed(Top)' /\ Failing(Top)' /\ CodeHookOnly(Top)'
    BY <1>7, <2>1, <2>2 DEF Undisturbed, Failing, CodeHookOnly
  <2>5. QED
    BY <2>3, <2>4 DEF CountOK
<1>12. CASE TcgCpuExec
  <2>1. /\ Top'.count = Top.count /\ Top'.timer = Top.timer
        /\ Top'.executed = Top.executed /\ Top'.asked = Top.asked
        /\ Top.pc = "loop" /\ (Top'.pc = "exception" \/ (Top'.pc = "clear" /\ Top'.next = "loop"))
        /\ UNCHANGED <<emu_counter, emu_count, count_hook, invalid_error>>
    BY <1>1, <1>12, GotoFields, ClearingFields DEF TcgCpuExec, Finish, At, cpu, counting
  <2>2. SUFFICES ASSUME Counts(Top)
                 PROVE  CountOK(Top)'
    BY <2>1 DEF Counts
  <2>3. Counter(Top)'
    BY <1>7, <2>1, <2>2, IdleCounter DEF Idle, Starting, Hooked
  <2>4. Undisturbed(Top)' /\ Failing(Top)' /\ CodeHookOnly(Top)'
    BY <1>7, <2>1, <2>2 DEF Undisturbed, Failing, CodeHookOnly
  <2>5. QED
    BY <2>3, <2>4 DEF CountOK
<1>13. CASE HandleExceptionNone
  <2>1. /\ Top'.count = Top.count /\ Top'.timer = Top.timer
        /\ Top'.executed = Top.executed /\ Top'.asked = Top.asked
        /\ Top.pc = "exception" /\ Top'.pc = "high" /\ exception = "none" /\ UNCHANGED flag
        /\ UNCHANGED <<emu_counter, emu_count, count_hook, invalid_error>>
    BY <1>1, <1>2, <1>13, GotoFields DEF HandleExceptionNone, At, cpu, counting
  <2>2. SUFFICES ASSUME Counts(Top)
                 PROVE  CountOK(Top)'
    BY <2>1 DEF Counts
  <2>3. Counter(Top)'
    <3>1. Idle
      BY <2>1 DEF Idle, Starting, Hooked
    <3>2. ~Starting(Top)
      BY <2>1 DEF Starting
    <3>3. QED
      BY <1>7, <2>2, <3>1, <3>2, IdleCounter
  <2>4. Undisturbed(Top)' /\ Failing(Top)' /\ CodeHookOnly(Top)'
    BY <1>7, <2>1, <2>2 DEF Undisturbed, Failing, CodeHookOnly
  <2>5. QED
    BY <2>3, <2>4 DEF CountOK
<1>14. CASE HandleExceptionExit
  <2>1. Top' = [Top EXCEPT !.pc = "return", !.ret = exception] /\ Top.pc = "exception"
    BY <1>1, <1>14, TopPut DEF HandleExceptionExit, At
  <2>2. /\ Top'.count = Top.count /\ Top'.timer = Top.timer
        /\ Top'.executed = Top.executed /\ Top'.asked = Top.asked /\ Top'.pc = "return"
    BY <1>2, <2>1 DEF Frame
  <2>3. UNCHANGED <<emu_counter, emu_count, count_hook, invalid_error>>
    BY <1>14 DEF HandleExceptionExit, counting
  <2>4. SUFFICES ASSUME Counts(Top)
                 PROVE  CountOK(Top)'
    BY <2>2 DEF Counts
  <2>5. Counter(Top)'
    BY <1>7, <2>1, <2>2, <2>3, <2>4, IdleCounter DEF Idle, Starting, Hooked
  <2>6. Undisturbed(Top)' /\ Failing(Top)' /\ CodeHookOnly(Top)'
    BY <2>2 DEF Undisturbed, Failing, CodeHookOnly
  <2>7. QED
    BY <2>5, <2>6 DEF CountOK
<1>15. CASE HandleExceptionUncaught \/ HandleExceptionCaught
  BY <1>3, <1>15 DEF HandleExceptionUncaught, HandleExceptionCaught
<1>16. CASE HandleExceptionDone
  <2>1. Top'.count = Top.count /\ Top'.timer = Top.timer /\ Top.pc = "handled"
    BY <1>1, <1>16, GotoFields DEF HandleExceptionDone, At
  <2>2. QED
    BY <1>7, <2>1 DEF Counts, CodeHookOnly
<1>17. CASE HandleInterruptHigh
  <2>1. /\ Top'.count = Top.count /\ Top'.timer = Top.timer
        /\ Top'.executed = Top.executed /\ Top'.asked = Top.asked
        /\ Top.pc = "high" /\ Top'.pc = "interrupt" /\ ~flag'["high"]
        /\ flag'["exit_request"] = flag["exit_request"]
        /\ UNCHANGED <<emu_counter, emu_count, count_hook, invalid_error>>
    BY <1>1, <1>2, <1>17, GotoFields DEF HandleInterruptHigh, At, cpu, counting, Clear
  <2>2. SUFFICES ASSUME Counts(Top)
                 PROVE  CountOK(Top)'
    BY <2>1 DEF Counts
  <2>3. Counter(Top)'
    BY <1>7, <2>1, <2>2, IdleCounter DEF Idle, Starting, Hooked
  <2>4. Undisturbed(Top)' /\ Failing(Top)' /\ CodeHookOnly(Top)'
    BY <1>7, <2>1, <2>2 DEF Undisturbed, Failing, CodeHookOnly
  <2>5. QED
    BY <2>3, <2>4 DEF CountOK
<1>18. CASE HandleInterruptExit
  <2>1. /\ Top'.count = Top.count /\ Top'.timer = Top.timer
        /\ Top'.executed = Top.executed /\ Top'.asked = Top.asked
        /\ Top.pc = "interrupt"
        /\ \/ Top'.pc = "exception" /\ exception' # "none"
           \/ Top'.pc = "find" /\ ~flag["exit_request"] /\ UNCHANGED flag
        /\ UNCHANGED <<emu_counter, emu_count, count_hook, invalid_error>>
    BY <1>1, <1>2, <1>18, GotoFields DEF HandleInterruptExit, At, cpu, counting
  <2>2. SUFFICES ASSUME Counts(Top)
                 PROVE  CountOK(Top)'
    BY <2>1 DEF Counts
  <2>3. Counter(Top)'
    BY <1>7, <2>1, <2>2, IdleCounter DEF Idle, Starting, Hooked
  <2>4. Undisturbed(Top)' /\ Failing(Top)' /\ CodeHookOnly(Top)'
    BY <1>7, <2>1, <2>2 DEF Undisturbed, Failing, CodeHookOnly
  <2>5. QED
    BY <2>3, <2>4 DEF CountOK
<1>19. CASE TbFind
  <2>1. /\ Top'.count = Top.count /\ Top'.timer = Top.timer
        /\ Top'.executed = Top.executed /\ Top'.asked = Top.asked
        /\ Top.pc = "find" /\ UNCHANGED flag
        /\ Top'.pc = "high" \/ (Top'.pc = "tb" /\ ~flag["exit_request"])
        /\ UNCHANGED <<emu_counter, emu_count, count_hook, invalid_error>>
    BY <1>1, <1>2, <1>19, GotoFields DEF TbFind, At, cpu, counting
  <2>2. SUFFICES ASSUME Counts(Top)
                 PROVE  CountOK(Top)'
    BY <2>1 DEF Counts
  <2>3. Counter(Top)'
    BY <1>7, <2>1, <2>2, IdleCounter DEF Idle, Starting, Hooked
  <2>4. Undisturbed(Top)' /\ Failing(Top)' /\ CodeHookOnly(Top)'
    BY <1>7, <2>1, <2>2 DEF Undisturbed, Failing, CodeHookOnly
  <2>5. QED
    BY <2>3, <2>4 DEF CountOK
<1>20. CASE CheckExitRequest
  <2>1. PICK p \in {"exception", "trace", "insn"} :
            Goto(p) /\ (p = "exception" <=> flag["high"]) /\ (p = "trace" => Top.pc = "tb")
            /\ (p = "insn" => Top.pc = "check")
    BY <1>2, <1>20 DEF CheckExitRequest, At
  <2>2. /\ Top'.count = Top.count /\ Top'.timer = Top.timer
        /\ Top'.executed = Top.executed /\ Top'.asked = Top.asked /\ Top'.pc = p
    BY <1>1, <2>1, GotoFields
  <2>3. /\ UNCHANGED <<emu_counter, emu_count, count_hook, invalid_error, flag>>
        /\ Top.pc \in {"tb", "check"}
    BY <1>20 DEF CheckExitRequest, At, counting
  <2>4. SUFFICES ASSUME Counts(Top)
                 PROVE  CountOK(Top)'
    BY <2>2 DEF Counts
  <2>5. ~invalid_error
    BY <1>7, <2>3, <2>4 DEF Failing
  <2>6. Top.pc = "check" => Top'.pc = "insn" \/ Top.asked # "no"
    BY <1>7, <2>1, <2>2, <2>3, <2>4 DEF Undisturbed
  <2>7. Counter(Top)'
    BY <1>7, <2>1, <2>2, <2>3, <2>4, <2>6 DEF Counter, Starting, Hooked
  <2>8. Undisturbed(Top)' /\ Failing(Top)' /\ CodeHookOnly(Top)'
    BY <1>7, <2>1, <2>2, <2>3, <2>4, <2>5 DEF Undisturbed, Failing, CodeHookOnly
  <2>9. QED
    BY <2>7, <2>8 DEF CountOK
<1>21. CASE CheckInDelaySlot \/ TraceNoStop \/ TraceNoStopCall \/ TraceNoStopRevert
  BY <1>3, <1>4, <1>21 DEF CheckInDelaySlot, TraceNoStop, TraceNoStopCall, TraceNoStopRevert,
                         At, Stoppable
<1>22. CASE TraceNone \/ TraceSkip
  <2>1. /\ Top'.count = Top.count /\ Top'.timer = Top.timer /\ Top.pc = "trace"
        /\ ~count_hook \/ flag["stop_request"]
    BY <1>1, <1>22, GotoFields DEF TraceNone, TraceSkip, At
  <2>2. Top.asked = "no"
    BY <1>3, <2>1 DEF OnItsWayOut
  <2>3. QED
    BY <1>5, <1>7, <2>1, <2>2 DEF Counts, Counter, Starting, Reverting
<1>23. CASE TraceCount
  <2>1. /\ Top'.count = Top.count /\ Top'.timer = Top.timer /\ Top'.executed = Top.executed
        /\ Top'.pc = "check"
        /\ Exceeded => Top'.asked # "no" /\ (Top.asked = "no" => Top'.asked = "count")
        /\ ~Exceeded => Top'.asked = Top.asked /\ UNCHANGED flag
    BY <1>23, CountFrame
  <2>2. /\ Top.pc = "trace" /\ count_hook /\ UNCHANGED <<emu_count, count_hook, invalid_error>>
        /\ emu_counter' = Counted
    BY <1>23 DEF TraceCount, At, hook_count_cb
  <2>3. SUFFICES ASSUME Counts(Top)
                 PROVE  CountOK(Top)'
    BY <2>1 DEF Counts
  <2>4. Top.asked = "no" /\ ~invalid_error
    BY <1>3, <1>7, <2>2, <2>3 DEF OnItsWayOut, Failing
  <2>5. /\ emu_counter = Top.executed /\ Top.executed <= Top.count /\ emu_count = Top.count
    BY <1>7, <2>2, <2>3, <2>4 DEF Counter, Hooked, Starting
  <2>6. Counted = Top.executed + 1
    BY <1>6, <2>5 DEF Counted
  <2>7. Exceeded <=> Top.executed = Top.count
    BY <1>6, <2>2, <2>5, <2>6 DEF Exceeded
  <2>8. Counter(Top)'
    <3>1. Top'.executed <= Top'.count /\ (Top'.asked = "count" => Top'.executed = Top'.count)
      BY <2>1, <2>4, <2>5, <2>7
    <3>2. Top'.asked = "no" => emu_counter' = Top'.executed + 1 /\ emu_counter' <= Top'.count
      BY <1>6, <2>1, <2>2, <2>5, <2>6, <2>7
    <3>3. emu_count' = Top'.count /\ count_hook' /\ Hooked(Top)'
      BY <2>1, <2>2, <2>5 DEF Hooked
    <3>4. QED
      BY <3>1, <3>2, <3>3 DEF Counter
  <2>9. Undisturbed(Top)' /\ Failing(Top)' /\ CodeHookOnly(Top)'
    BY <1>7, <2>1, <2>2, <2>3, <2>4 DEF Undisturbed, Failing, CodeHookOnly
  <2>10. QED
    BY <2>8, <2>9 DEF CountOK
<1>24. CASE TraceUser
  <2>1. Top' = [Top EXCEPT !.pc = "callback", !.next = "check"]
    BY <1>1, <1>24, TopPut DEF TraceUser
  <2>2. /\ Top'.count = Top.count /\ Top'.timer = Top.timer /\ Top'.executed = Top.executed
        /\ Top'.pc = "callback" /\ Top'.next = "check" /\ Top'.asked = Top.asked
    BY <1>2, <2>1 DEF Frame
  <2>3. /\ Top.pc = "trace" /\ ~Exceeded /\ UNCHANGED <<emu_count, count_hook, invalid_error, flag>>
        /\ count_hook => emu_counter' = Counted
    BY <1>24 DEF TraceUser, At, hook_count_cb
  <2>4. SUFFICES ASSUME Counts(Top)
                 PROVE  CountOK(Top)'
    BY <2>2 DEF Counts
  <2>5. Top.asked = "no" /\ ~invalid_error
    BY <1>3, <1>7, <2>3, <2>4 DEF OnItsWayOut, Failing
  <2>6. /\ emu_counter = Top.executed /\ Top.executed <= Top.count
        /\ emu_count = Top.count /\ count_hook
    BY <1>7, <2>3, <2>4, <2>5 DEF Counter, Hooked, Starting
  <2>7. Counted = Top.executed + 1
    BY <1>6, <2>6 DEF Counted
  <2>8. Top.executed + 1 <= Top.count
    BY <1>6, <2>3, <2>6, <2>7 DEF Exceeded
  <2>9. Counter(Top)'
    <3>1. Top'.executed <= Top'.count /\ Top'.asked # "count"
      BY <2>2, <2>5, <2>6
    <3>2. emu_counter' = Top'.executed + 1 /\ emu_counter' <= Top'.count
      BY <2>2, <2>3, <2>6, <2>7, <2>8
    <3>3. emu_count' = Top'.count /\ count_hook' /\ Hooked(Top)'
      BY <2>2, <2>3, <2>6 DEF Hooked
    <3>4. QED
      BY <3>1, <3>2, <3>3 DEF Counter
  <2>10. Undisturbed(Top)' /\ Failing(Top)' /\ CodeHookOnly(Top)'
    BY <1>7, <2>2, <2>3, <2>4, <2>5 DEF Undisturbed, Failing, CodeHookOnly
  <2>11. QED
    BY <2>9, <2>10 DEF CountOK
<1>25. CASE CallbackReturn
  <2>1. /\ Top'.count = Top.count /\ Top'.timer = Top.timer /\ Top'.executed = Top.executed
        /\ Top'.asked = Top.asked /\ Top'.pc = Top.next /\ Top.pc = "callback"
        /\ UNCHANGED <<emu_counter, emu_count, count_hook, invalid_error, flag>>
    BY <1>1, <1>25, GotoFields DEF CallbackReturn, InCallback, At, counting
  <2>2. SUFFICES ASSUME Counts(Top)
                 PROVE  CountOK(Top)'
    BY <2>1 DEF Counts
  <2>3. Top.next = "check"
    BY <1>7, <2>1, <2>2 DEF CodeHookOnly
  <2>4. Counter(Top)'
    <3>1. Idle
      BY <2>1, <2>3 DEF Idle, Starting, Hooked
    <3>2. ~Starting(Top)
      BY <2>1 DEF Starting
    <3>3. QED
      BY <1>7, <2>2, <3>1, <3>2, IdleCounter
  <2>5. Undisturbed(Top)' /\ Failing(Top)' /\ CodeHookOnly(Top)'
    BY <1>7, <2>1, <2>2, <2>3 DEF Undisturbed, Failing, CodeHookOnly
  <2>6. QED
    BY <2>4, <2>5 DEF CountOK
<1>26. CASE Insn \/ TbEnd
  <2>1. PICK p \in {"trace", "tb", "high"} : Ran(p)
    BY <1>26 DEF Insn, TbEnd
  <2>2. DEFINE k == IF Top.count = 0 \/ Top.executed > MaxCount THEN Top.executed ELSE Top.executed + 1
  <2>3. Put([Top EXCEPT !.pc = p, !.executed = k]) /\ Top.pc = "insn"
    BY <2>1 DEF Ran, At
  <2> HIDE DEF k
  <2>4. Top' = [Top EXCEPT !.pc = p, !.executed = k]
    BY <1>1, <2>3, TopPut
  <2>5. /\ Top'.count = Top.count /\ Top'.timer = Top.timer /\ Top'.executed = k
        /\ Top'.pc = p /\ Top'.asked = Top.asked
    BY <1>2, <2>4 DEF Frame
  <2>6. UNCHANGED <<emu_counter, emu_count, count_hook, invalid_error, flag>>
    BY <2>1 DEF Ran, counting
  <2>7. SUFFICES ASSUME Counts(Top)
                 PROVE  CountOK(Top)'
    BY <2>5 DEF Counts
  <2>8. Top.asked = "no" /\ ~invalid_error
    BY <1>3, <1>7, <2>3, <2>7 DEF OnItsWayOut, Failing
  <2>9. /\ emu_counter = Top.executed + 1 /\ emu_counter <= Top.count
        /\ emu_count = Top.count /\ count_hook
    BY <1>7, <2>3, <2>7, <2>8 DEF Counter, Hooked, Starting
  <2>10. k = Top.executed + 1
    BY <1>6, <2>7, <2>9 DEF k, Counts
  <2>11. Counter(Top)'
    BY <2>5, <2>6, <2>8, <2>9, <2>10 DEF Counter, Hooked
  <2>12. Undisturbed(Top)' /\ Failing(Top)' /\ CodeHookOnly(Top)'
    BY <1>7, <2>3, <2>5, <2>6, <2>7, <2>8 DEF Undisturbed, Failing, CodeHookOnly
  <2>13. QED
    BY <2>11, <2>12 DEF CountOK
<1>27. CASE Halt
  <2>1. /\ Top'.count = Top.count /\ Top'.timer = Top.timer
        /\ Top'.executed = Top.executed /\ Top'.asked = Top.asked
        /\ Top.pc = "trace" /\ Top'.pc = "exception" /\ exception' = "hlt"
        /\ UNCHANGED <<emu_counter, emu_count, count_hook, invalid_error>>
    BY <1>1, <1>2, <1>27, GotoFields DEF Halt, At, cpu, counting
  <2>2. SUFFICES ASSUME Counts(Top)
                 PROVE  CountOK(Top)'
    BY <2>1 DEF Counts
  <2>3. Counter(Top)'
    <3>1. Idle
      BY <2>1 DEF Idle, Starting, Hooked
    <3>2. ~Starting(Top)
      BY <2>1 DEF Starting
    <3>3. QED
      BY <1>7, <2>2, <3>1, <3>2, IdleCounter
  <2>4. Undisturbed(Top)' /\ Failing(Top)' /\ CodeHookOnly(Top)'
    BY <1>7, <2>1, <2>2 DEF Undisturbed, Failing, CodeHookOnly
  <2>5. QED
    BY <2>3, <2>4 DEF CountOK
<1>28. CASE Fault
  <2>1. Top' = [Top EXCEPT !.pc = "exception", !.failed = TRUE] /\ Top.pc = "insn"
    BY <1>1, <1>28, TopPut DEF Fault, At
  <2>2. /\ Top'.count = Top.count /\ Top'.timer = Top.timer
        /\ Top'.executed = Top.executed /\ Top'.asked = Top.asked /\ Top'.pc = "exception"
    BY <1>2, <2>1 DEF Frame
  <2>3. UNCHANGED <<emu_count, count_hook>> /\ invalid_error' /\ flag'["exit_request"]
    BY <1>2, <1>28 DEF Fault, counting, Set, cpu_exit
  <2>4. SUFFICES ASSUME Counts(Top)
                 PROVE  CountOK(Top)'
    BY <2>2 DEF Counts
  <2>5. Counter(Top)'
    BY <1>7, <2>1, <2>2, <2>3, <2>4 DEF Counter, Starting
  <2>6. Undisturbed(Top)' /\ Failing(Top)' /\ CodeHookOnly(Top)'
    BY <2>2, <2>3 DEF Undisturbed, Failing, CodeHookOnly
  <2>7. QED
    BY <2>5, <2>6 DEF CountOK
<1>29. CASE \E e \in {"guest", "debug"} : RaiseException(e)
  BY <1>4, <1>29 DEF RaiseException
<1>30. CASE ExecReturned
  <2>1. /\ Top'.count = Top.count /\ Top'.timer = Top.timer
        /\ Top'.executed = Top.executed /\ Top'.asked = Top.asked
        /\ Top.pc = "return" /\ UNCHANGED flag
        /\ Top'.pc = "verdict" \/ (Top'.pc = "clear" /\ Top'.next \in {"verdict", "exits"})
        /\ UNCHANGED <<emu_counter, emu_count, count_hook, invalid_error>>
    BY <1>1, <1>30, GotoFields, ClearingFields DEF ExecReturned, At, counting
  <2>2. SUFFICES ASSUME Counts(Top)
                 PROVE  CountOK(Top)'
    BY <2>1 DEF Counts
  <2>3. Counter(Top)'
    <3>1. Idle
      BY <2>1 DEF Idle, Starting, Hooked
    <3>2. ~Starting(Top)
      BY <2>1 DEF Starting
    <3>3. QED
      BY <1>7, <2>2, <3>1, <3>2, IdleCounter
  <2>4. Undisturbed(Top)' /\ Failing(Top)' /\ CodeHookOnly(Top)'
    BY <1>7, <2>1, <2>2 DEF Undisturbed, Failing, CodeHookOnly
  <2>5. QED
    BY <2>3, <2>4 DEF CountOK
<1>31. CASE Verdict
  <2>1. /\ Top'.count = Top.count /\ Top'.timer = Top.timer
        /\ Top'.executed = Top.executed /\ Top'.asked = Top.asked
        /\ Top.pc = "verdict"
        /\ \/ Top'.pc = "loop" /\ ~invalid_error
           \/ Top'.pc = "clear" /\ Top'.next \in {"loop", "exits"}
                                /\ (invalid_error => Top'.next = "exits")
        /\ UNCHANGED <<emu_counter, emu_count, count_hook, invalid_error>>
    BY <1>1, <1>2, <1>31, GotoFields, ClearingFields DEF Verdict, Finish, At, counting
  <2>2. SUFFICES ASSUME Counts(Top)
                 PROVE  CountOK(Top)'
    BY <2>1 DEF Counts
  <2>3. Counter(Top)'
    <3>1. Idle
      BY <2>1 DEF Idle, Starting, Hooked
    <3>2. ~Starting(Top)
      BY <2>1 DEF Starting
    <3>3. QED
      BY <1>7, <2>2, <3>1, <3>2, IdleCounter
  <2>4. Undisturbed(Top)' /\ Failing(Top)' /\ CodeHookOnly(Top)'
    BY <1>7, <2>1, <2>2 DEF Undisturbed, Failing, CodeHookOnly
  <2>5. QED
    BY <2>3, <2>4 DEF CountOK
<1>32. CASE ClearFlag
  <2>1. Top.pc = "clear" /\ UNCHANGED <<emu_counter, emu_count, count_hook, invalid_error>>
    BY <1>32 DEF ClearFlag, At, counting
  <2>2. /\ Top'.count = Top.count /\ Top'.timer = Top.timer /\ Top'.executed = Top.executed
        /\ Top'.asked = Top.asked /\ Top'.next = Top.next
        /\ Top'.pc = Top.next \/ Top'.pc = "clear"
    <3>1. CASE Tail(Top.todo) = <<>>
      BY <1>1, <1>32, <3>1, GotoFields DEF ClearFlag
    <3>2. CASE Tail(Top.todo) # <<>>
      <4>1. Top' = [Top EXCEPT !.todo = Tail(Top.todo)]
        BY <1>1, <1>32, <3>2, TopPut DEF ClearFlag
      <4>2. QED
        BY <1>2, <2>1, <4>1 DEF Frame
    <3>3. QED
      BY <3>1, <3>2
  <2>3. Top.next \in {"begin", "loop", "verdict", "exits"}
    BY <1>3, <2>1 DEF Stoppable
  <2>4. SUFFICES ASSUME Counts(Top)
                 PROVE  CountOK(Top)'
    BY <2>2 DEF Counts
  <2>5. Counter(Top)'
    <3>1. Idle
      BY <2>1, <2>2, <2>3 DEF Idle, Starting, Hooked
    <3>2. Starting(Top) => Starting(Top')
      BY <2>1, <2>2 DEF Starting
    <3>3. QED
      BY <1>7, <2>4, <3>1, <3>2, IdleCounter
  <2>6. Undisturbed(Top)' /\ Failing(Top)' /\ CodeHookOnly(Top)'
    BY <1>7, <2>1, <2>2, <2>3, <2>4 DEF Undisturbed, Failing, CodeHookOnly
  <2>7. QED
    BY <2>5, <2>6 DEF CountOK
<1>33. QED
  BY <1>9, <1>10, <1>11, <1>12, <1>13, <1>14, <1>15, <1>16, <1>17, <1>18, <1>19, <1>20, <1>21,
     <1>22, <1>23, <1>24, <1>25, <1>26, <1>27, <1>28, <1>29, <1>30, <1>31, <1>32 DEF Inside

\* No step makes the counter differ from the instructions.
LEMMA CountStep ==
    ASSUME IInv, StopTop, ErrorTop, OneFrame, Threads, CountTop, [Next]_vars, Plain
    PROVE  CountTop'
<1>1. CASE Inside
  BY <1>1, InsideCount
<1>2. CASE RegWritePc \/ MemProtect \/ EmuStartRefused
  BY <1>2 DEF RegWritePc, MemProtect, EmuStartRefused, Plain
<1>3. CASE UNCHANGED vars
  BY <1>3 DEF vars, CountTop, CountOK, Counter, Undisturbed, Failing, Top
<1>4. ASSUME NEW t \in Timer, TimerStep(t)
      PROVE  CountTop'
  <2>1. thread[t] # "off" /\ UNCHANGED frames
    BY <1>4 DEF TimerStep, TimerLoop, TimerFinal, TimerStop, TimerBreak, TimerExit, TimerHigh
  <2>2. Top.timer # NoTimer /\ Top' = Top
    BY <2>1, TimerAssumption DEF Threads, Top
  <2>3. QED
    BY <2>2 DEF CountTop, Counts
<1>5. CASE EmuStop
  <2>1. CASE frames' = <<>>
    BY <2>1 DEF CountTop
  <2>2. CASE Kept /\ Top.pc = "callback" /\ Top' = [Top EXCEPT !.asked = "user"]
    <3>1. Top \in Frame /\ frames # <<>>
      BY <2>2, TopFrame DEF Kept
    <3>2. /\ Top'.pc = "callback" /\ Top'.next = Top.next /\ Top'.timer = Top.timer
          /\ Top'.count = Top.count /\ Top'.executed = Top.executed /\ Top'.asked = "user"
      BY <2>2, <3>1 DEF Frame
    <3>3. UNCHANGED <<emu_count, count_hook, invalid_error>>
      BY <1>5 DEF EmuStop, counting
    <3>4. SUFFICES ASSUME Counts(Top)
                   PROVE  CountOK(Top)'
      BY <3>2 DEF CountTop, Counts
    <3>5. CountOK(Top)
      BY <3>1, <3>4 DEF CountTop
    <3>6. Counter(Top)'
      BY <2>2, <3>2, <3>3, <3>5 DEF CountOK, Counter, Starting
    <3>7. Undisturbed(Top)' /\ Failing(Top)' /\ CodeHookOnly(Top)'
      BY <2>2, <3>2, <3>3, <3>5 DEF CountOK, Undisturbed, Failing, CodeHookOnly
    <3>8. QED
      BY <3>6, <3>7 DEF CountOK
  <2>3. QED
    BY <1>5, <2>1, <2>2, StopFrame
<1>6. ASSUME NEW t \in Timer \cup {NoTimer}, NEW c \in 0 .. MaxCount, EmuStart(t, c)
      PROVE  CountTop'
  <2>1. Top' = NewFrame(t, c) /\ emu_counter' = 0 /\ ~invalid_error'
    BY <1>6, StartFrame DEF Pushed, EmuStart, EmuReset
  <2>2. /\ Top'.pc = "clear" /\ Top'.next = "begin" /\ Top'.executed = 0 /\ Top'.count = c
        /\ Top'.asked = "no"
    BY <2>1 DEF NewFrame
  <2>3. c \in Nat
    BY CountAssumption
  <2>4. Counter(Top)'
    BY <2>1, <2>2, <2>3 DEF Counter, Hooked, Starting
  <2>5. Undisturbed(Top)' /\ Failing(Top)' /\ CodeHookOnly(Top)'
    BY <2>1, <2>2 DEF Undisturbed, Failing, CodeHookOnly
  <2>6. QED
    BY <2>4, <2>5 DEF CountTop, CountOK
<1>7. CASE Leaving
  <2>1. frames # <<>> /\ Top \in Frame /\ Len(frames) \in Nat
    BY <1>7, LeaveFrame, TopFrame
  <2>2. CASE Popped
    <3>1. frames' \in Seq(Frame) /\ Len(frames') <= 0
      BY <1>7, <2>1, <2>2, LeavingLevels DEF IInv, TypeOK, Popped, OneFrame
    <3>2. frames' = <<>>
      BY <3>1
    <3>3. QED
      BY <3>2 DEF CountTop
  <2>3. ASSUME InvalidateExit \/ InvalidateExitDone \/ EmuLeave,
               NEW p \in {"probe", "leave", "join"}, Top' = [Top EXCEPT !.pc = p]
        PROVE  CountTop'
    <3>1. /\ Top'.pc = p /\ Top'.count = Top.count /\ Top'.timer = Top.timer
          /\ Top'.executed = Top.executed /\ Top'.asked = Top.asked
      BY <2>1, <2>3 DEF Frame
    <3>2. /\ UNCHANGED <<emu_counter, emu_count, count_hook, invalid_error>>
          /\ Top.pc \in {"exits", "probe", "leave"}
      BY <2>3 DEF InvalidateExit, InvalidateExitDone, EmuLeave, At, counting
    <3>3. SUFFICES ASSUME Counts(Top)
                   PROVE  CountOK(Top)'
      BY <3>1 DEF CountTop, Counts
    <3>4. CountOK(Top)
      BY <2>1, <3>3 DEF CountTop
    <3>5. Counter(Top)'
      <4>1. Idle /\ ~Starting(Top)
        BY <3>1, <3>2 DEF Idle, Starting, Hooked
      <4>2. QED
        BY <3>4, <4>1, IdleCounter DEF CountOK
    <3>6. Undisturbed(Top)' /\ Failing(Top)' /\ CodeHookOnly(Top)'
      BY <3>1 DEF Undisturbed, Failing, CodeHookOnly
    <3>7. QED
      BY <3>5, <3>6 DEF CountOK
  <2>4. QED
    BY <1>7, <2>2, <2>3, LeaveFrame
<1>8. QED
  BY <1>1, <1>2, <1>3, <1>4, <1>5, <1>6, <1>7, Steps DEF UserStep

\* uc_emu_start with a count and no timeout executes at most count instructions,
\* and exactly count when the counter stops it, for every count: with stops by
\* callbacks, faults and a count hook that may not be allocated, and with timers
\* on the emulations before it.
THEOREM CountIsExact ==
    ASSUME Plain
    PROVE  Spec => []CountExact
<1>1. /\ {"nest", "protect", "it", "delay", "exception"} \cap Allow = {}
  BY DEF Plain
<1> DEFINE J == StopTop /\ StopOuter /\ ErrorTop /\ ErrorOuter /\ OneFrame /\ Threads /\ CountTop
<1>2. Init => J
  BY DEF Init, StopTop, StopOuter, ErrorTop, ErrorOuter, OneFrame, Threads, CountTop, Outer
<1>3. IInv /\ J /\ [Next]_vars => J'
  BY <1>1, StopStep, ErrorStep, ThreadsStep, CountStep
<1>4. IInv /\ J => CountExact
  <2>1. SUFFICES ASSUME IInv, OneFrame, CountTop, NEW n \in DOMAIN frames, Counts(frames[n])
                 PROVE  /\ frames[n].executed <= frames[n].count
                        /\ frames[n].asked = "count" => frames[n].executed = frames[n].count
    BY DEF CountExact, Counts
  <2>2. frames \in Seq(Frame)
    BY <2>1 DEF IInv, TypeOK
  <2>3. n = Len(frames) /\ frames # <<>>
    BY <2>1, <2>2 DEF OneFrame
  <2>4. QED
    BY <2>1, <2>3 DEF CountTop, CountOK, Counter, Top
<1>5. QED
  BY <1>2, <1>3, <1>4, InvAlways, PTL DEF Spec

=============================================================================
