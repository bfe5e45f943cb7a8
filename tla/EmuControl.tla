----------------------------- MODULE EmuControl -----------------------------
(***************************************************************************)
(* Starting, stopping and leaving an emulation: uc_emu_start and           *)
(* uc_emu_stop of uc.c, the timer thread uc_emu_start creates for a        *)
(* timeout, the instruction counter, the loop of softmmu/cpus.c            *)
(* (resume_all_vcpus, tcg_cpu_exec) and of accel/tcg/cpu-exec.c (cpu_exec) *)
(* and the exit checks of the translated code.                             *)
(*                                                                         *)
(* One engine thread runs the emulations; a callback may start a nested    *)
(* one, so its state is a stack of frames.  A timer thread shares          *)
(* emulation_done, timed_out and the flags with it without a lock: a step  *)
(* is as small as the accesses the other thread can tell apart, and the    *)
(* accesses are taken in program order.                                    *)
(***************************************************************************)
EXTENDS Integers, Sequences, FiniteSets

CONSTANTS
    Timer,          \* thread identities pthread_create may return
    NoTimer,        \* uc_emu_start was called with timeout = 0
    MAX_NESTED,     \* UC_MAX_NESTED_LEVEL
    MaxCount,       \* the largest count passed to uc_emu_start
    Allow           \* circumstances of this model, a subset of Circumstance

\* "stop", "setpc", "protect", "nest": a callback calls uc_emu_stop, writes the
\* PC, takes EXEC away from the page it runs in, calls uc_emu_start;
\* "fault", "exception": instructions may access invalid memory, may raise
\* exceptions;
\* "it", "delay": instructions of an ARM IT block, of a branch delay slot;
\* "debug": guest debug exceptions;
\* "nomem": the count hook may not be allocated;
\* "early": a timer may expire before the engine thread is in resume_all_vcpus.
Circumstance ==
    {"stop", "setpc", "protect", "nest", "fault", "exception", "it", "delay", "debug",
     "nomem", "early"}

ASSUME TimerAssumption == NoTimer \notin Timer
ASSUME NestedAssumption == MAX_NESTED \in Nat \ {0}
ASSUME CountAssumption == MaxCount \in Nat
ASSUME AllowAssumption == Allow \subseteq Circumstance

VARIABLES
    frames,         \* the uc_emu_start calls that have not returned, outermost first
    nested_level,   \* uc->nested_level
    emulation_done, \* uc->emulation_done
    timed_out,      \* uc->timed_out
    invalid_error,  \* uc->invalid_error # UC_ERR_OK
    flag,           \* the requests: see Flag
    exception,      \* cpu->exception_index, "none" for -1
    stopped,        \* cpu->stopped
    emu_counter, emu_count,
    count_hook,     \* uc->count_hook # 0
    timer,          \* uc->timer
    thread          \* where each timer thread is in _timeout_fn

counting == <<emu_counter, emu_count, count_hook>>
timing   == <<timer, thread, timed_out>>
cpu      == <<exception, stopped>>
vars     == <<frames, nested_level, emulation_done, timed_out, invalid_error, flag,
              exception, stopped, emu_counter, emu_count, count_hook, timer, thread>>

\* uc->stop_request, uc->quit_request, cpu->exit_request and
\* cpu->icount_decr_ptr->u16.high.
Flag == {"stop_request", "quit_request", "exit_request", "high"}
cpu_exit == {"exit_request", "high"}
Set(F) == [f \in Flag |-> flag[f] \/ f \in F]
Clear(F) == [f \in Flag |-> flag[f] /\ f \notin F]

\* Where a uc_emu_start call is.  "callback": in user code it called.
Pc == {"begin", "timer", "resume", "loop", "exception", "high", "interrupt", "find",
       "tb", "trace", "check", "nostop", "revert", "insn", "callback", "handled",
       "clear", "return", "verdict", "exits", "probe", "leave", "join"}
\* A frame: the flags it is clearing one by one (todo) and where it goes after
\* that or after a callback (next); what cpu_exec returned; its arguments; and,
\* as history, the instructions it ran, who called uc_emu_stop for it, whether
\* an instruction of it failed, and what ended it.
Frame == [pc : Pc, next : Pc, todo : Seq(Flag), ret : {"none", "interrupt", "hlt", "debug"},
          timer : Timer \cup {NoTimer}, count : 0..MaxCount, executed : 0..MaxCount + 1,
          asked : {"no", "user", "count"}, failed : BOOLEAN,
          by : {"none", "stop", "error", "hlt"}]

\* A timer thread: absent, in its loop, after the loop, then the writes of
\* uc_emu_stop one by one, and returned but not joined.
Where == {"off", "wait", "final", "stop", "break", "exit", "high", "done"}

\* Types of the state.  nested_level is at most one above the limit that
\* uc_emu_start tests: uc_invalidate_tb takes a level without testing it.
TypeOK ==
    /\ frames \in Seq(Frame)
    /\ nested_level \in 0..MAX_NESTED + 1
    /\ emulation_done \in BOOLEAN /\ timed_out \in BOOLEAN /\ invalid_error \in BOOLEAN
    /\ flag \in [Flag -> BOOLEAN]
    /\ exception \in {"none", "interrupt", "hlt", "debug", "guest"}
    /\ stopped \in BOOLEAN
    /\ emu_counter \in 0..MaxCount + 1 /\ emu_count \in 0..MaxCount
    /\ count_hook \in BOOLEAN
    /\ timer \in Timer \cup {NoTimer}
    /\ thread \in [Timer -> Where]

Init ==
    /\ frames = <<>>
    /\ nested_level = 0
    /\ emulation_done = FALSE /\ timed_out = FALSE /\ invalid_error = FALSE
    /\ flag = [f \in Flag |-> FALSE]
    /\ exception = "none"
    /\ stopped = TRUE
    /\ emu_counter = 0 /\ emu_count = 0 /\ count_hook = FALSE
    /\ timer = NoTimer
    /\ thread = [t \in Timer |-> "off"]

Top == frames[Len(frames)]
At(pc) == frames # <<>> /\ Top.pc = pc
InUser == frames = <<>> \/ At("callback")
InCallback == At("callback")
Put(f) == frames' = [frames EXCEPT ![Len(frames)] = f]
Goto(pc) == Put([Top EXCEPT !.pc = pc])
\* Go to pc after clearing the flags in the order the code clears them.
GotoClearing(fs, pc) == Put([Top EXCEPT !.pc = "clear", !.todo = fs, !.next = pc])

break_translation_loop == IF emulation_done THEN {} ELSE cpu_exit

-----------------------------------------------------------------------------
\* The API calls of the user, between emulations or in a callback.

\* The frame the caller's callback belongs to, with what it asked for.
Asking(who) ==
    IF frames = <<>> THEN frames ELSE [frames EXCEPT ![Len(frames)].asked = who]

EmuStop ==
    /\ InUser /\ "stop" \in Allow
    /\ flag' = Set({"stop_request"} \cup break_translation_loop)
    /\ frames' = Asking("user")
    /\ UNCHANGED <<nested_level, emulation_done, invalid_error, cpu, counting, timing>>

\* uc_reg_write and its variants when the register is the program counter.
RegWritePc ==
    /\ InUser /\ "setpc" \in Allow
    /\ flag' = Set({"quit_request"} \cup break_translation_loop)
    /\ UNCHANGED <<frames, nested_level, emulation_done, invalid_error, cpu, counting, timing>>

\* uc_mem_protect that takes EXEC away from the memory around the PC.
MemProtect ==
    /\ InCallback /\ "protect" \in Allow
    /\ flag' = Set({"quit_request", "stop_request"} \cup break_translation_loop)
    /\ UNCHANGED <<frames, nested_level, emulation_done, invalid_error, cpu, counting, timing>>

\* The assignments at the top of uc_emu_start.
EmuReset ==
    /\ emu_counter' = 0
    /\ invalid_error' = FALSE
    /\ emulation_done' = FALSE
    /\ timed_out' = FALSE

\* Every level is taken: UC_ERR_RESOURCE, after the assignments.
EmuStartRefused ==
    /\ InCallback /\ "nest" \in Allow /\ nested_level >= MAX_NESTED
    /\ EmuReset
    /\ UNCHANGED <<frames, nested_level, flag, cpu, emu_count, count_hook, timer, thread>>

EmuStart_keepstop(t, c) ==
    /\ InUser /\ nested_level < MAX_NESTED
    /\ frames = <<>> \/ "nest" \in Allow
    /\ t # NoTimer => thread[t] = "off" /\ \A n \in DOMAIN frames : frames[n].timer # t
    /\ EmuReset
    /\ nested_level' = nested_level + 1
    /\ flag' = Set({"quit_request"} \cup cpu_exit)
    /\ frames' = Append(Asking("no"),
                        [pc |-> "begin", next |-> "begin", todo |-> <<>>,
                         ret |-> "none", timer |-> t, count |-> c, executed |-> 0,
                         asked |-> "no", failed |-> FALSE, by |-> "none"])
    /\ UNCHANGED <<cpu, emu_count, count_hook, timer, thread>>

\* A new level; the PC is written with uc_reg_write.
EmuStart(t, c) ==
    /\ InUser /\ nested_level < MAX_NESTED
    /\ frames = <<>> \/ "nest" \in Allow
    /\ t # NoTimer => thread[t] = "off" /\ \A n \in DOMAIN frames : frames[n].timer # t
    /\ EmuReset
    /\ nested_level' = nested_level + 1
    /\ flag' = Set({"quit_request"} \cup cpu_exit)
    /\ frames' = Append(Asking("no"),
                        [pc |-> "clear", next |-> "begin", todo |-> <<"stop_request">>,
                         ret |-> "none", timer |-> t, count |-> c, executed |-> 0,
                         asked |-> "no", failed |-> FALSE, by |-> "none"])
    /\ UNCHANGED <<cpu, emu_count, count_hook, timer, thread>>

\* emu_count, and the count hook: removed when count = 0, else added once.
EmuStartCount ==
    /\ At("begin")
    /\ emu_count' = Top.count
    /\ count_hook' = (Top.count > 0)
    /\ Goto("timer")
    /\ UNCHANGED <<nested_level, emulation_done, invalid_error, flag, cpu, emu_counter, timing>>

\* uc_hook_add failed: uc_emu_start returns, leaving emulation_done FALSE.
EmuStartNoMem ==
    /\ At("begin") /\ "nomem" \in Allow /\ Top.count > 0 /\ ~count_hook
    /\ emu_count' = Top.count
    /\ nested_level' = nested_level - 1
    /\ frames' = SubSeq(frames, 1, Len(frames) - 1)
    /\ UNCHANGED <<emulation_done, invalid_error, flag, cpu, emu_counter, count_hook, timing>>

EnableTimer ==
    /\ At("timer")
    /\ IF Top.timer = NoTimer
       THEN UNCHANGED <<timer, thread>>
       ELSE /\ timer' = Top.timer
            /\ thread' = [thread EXCEPT ![Top.timer] = "wait"]
    /\ Goto("resume")
    /\ UNCHANGED <<nested_level, emulation_done, timed_out, invalid_error, flag, cpu, counting>>

-----------------------------------------------------------------------------
\* The engine: resume_all_vcpus, tcg_cpu_exec and cpu_exec.

\* One assignment flag = 0 of a run of them.
ClearFlag ==
    /\ At("clear")
    /\ flag' = Clear({Head(Top.todo)})
    /\ IF Tail(Top.todo) = <<>> THEN Goto(Top.next) ELSE Put([Top EXCEPT !.todo = Tail(@)])
    /\ UNCHANGED <<nested_level, emulation_done, invalid_error, cpu, counting, timing>>

ResumeAllVcpus ==
    /\ At("resume")
    /\ exception' = "none"
    /\ stopped' = FALSE
    /\ flag' = Clear({"exit_request"})
    /\ Goto("loop")
    /\ UNCHANGED <<nested_level, emulation_done, invalid_error, counting, timing>>

\* The tail of tcg_cpu_exec.
Finish(pc) == GotoClearing(<<"exit_request", "high">>, pc)

\* The head of the loop of tcg_cpu_exec; a stopped cpu leaves it unfinished,
\* and resume_all_vcpus calls it again.
TcgCpuExec ==
    /\ At("loop")
    /\ IF stopped THEN Finish("loop") /\ UNCHANGED flag
       ELSE flag' = Clear({"quit_request"}) /\ Goto("exception")
    /\ UNCHANGED <<nested_level, emulation_done, invalid_error, cpu, counting, timing>>

\* cpu_handle_exception: nothing pending; an exit request of cpu_exec itself.
HandleExceptionNone ==
    /\ At("exception") /\ exception = "none"
    /\ Goto("high")
    /\ UNCHANGED <<nested_level, emulation_done, invalid_error, flag, cpu, counting, timing>>

HandleExceptionExit ==
    /\ At("exception") /\ exception \in {"interrupt", "hlt", "debug"}
    /\ Put([Top EXCEPT !.pc = "return", !.ret = exception])
    /\ exception' = "none"
    /\ UNCHANGED <<nested_level, emulation_done, invalid_error, flag, stopped, counting, timing>>

\* A guest exception or an invalid instruction no hook handles.
HandleExceptionUncaught ==
    /\ At("exception") /\ exception = "guest"
    /\ invalid_error' = TRUE
    /\ Put([Top EXCEPT !.pc = "return", !.ret = "hlt"])
    /\ UNCHANGED <<nested_level, emulation_done, flag, cpu, counting, timing>>

\* One that hooks handle.
HandleExceptionCaught ==
    /\ At("exception") /\ exception = "guest"
    /\ Put([Top EXCEPT !.pc = "callback", !.next = "handled", !.failed = FALSE])
    /\ UNCHANGED <<nested_level, emulation_done, invalid_error, flag, cpu, counting, timing>>

HandleExceptionDone ==
    /\ At("handled")
    /\ exception' = "none"
    /\ Goto("high")
    /\ UNCHANGED <<nested_level, emulation_done, invalid_error, flag, stopped, counting, timing>>

\* cpu_handle_interrupt clears u16.high before it reads exit_request.
HandleInterruptHigh ==
    /\ At("high")
    /\ flag' = Clear({"high"})
    /\ Goto("interrupt")
    /\ UNCHANGED <<nested_level, emulation_done, invalid_error, cpu, counting, timing>>

HandleInterruptExit ==
    /\ At("interrupt")
    /\ IF flag["exit_request"]
       THEN /\ flag' = Clear({"exit_request"})
            /\ exception' = IF exception = "none" THEN "interrupt" ELSE exception
            /\ Goto("exception")
       ELSE Goto("find") /\ UNCHANGED <<flag, exception>>
    /\ UNCHANGED <<nested_level, emulation_done, invalid_error, stopped, counting, timing>>

\* tb_find, and the test of exit_request after it.
TbFind ==
    /\ At("find")
    /\ Goto(IF flag["exit_request"] THEN "high" ELSE "tb")
    /\ UNCHANGED <<nested_level, emulation_done, invalid_error, flag, cpu, counting, timing>>

\* The helper check_exit_request, at the start of a block and after a code hook:
\* cpu_loop_exit is a longjmp into the cpu_exec of the current nested_level.
CheckExitRequest ==
    /\ At("tb") \/ At("check")
    /\ Goto(IF flag["high"] THEN "exception"
            ELSE IF Top.pc = "tb" THEN "trace" ELSE "insn")
    /\ UNCHANGED <<nested_level, emulation_done, invalid_error, flag, cpu, counting, timing>>

\* The same helper does nothing after the hook of a delay slot.
CheckInDelaySlot ==
    /\ At("check") /\ "delay" \in Allow
    /\ Goto("insn")
    /\ UNCHANGED <<nested_level, emulation_done, invalid_error, flag, cpu, counting, timing>>

\* An instruction without a code hook.
TraceNone ==
    /\ At("trace") /\ ~count_hook
    /\ Goto("insn")
    /\ UNCHANGED <<nested_level, emulation_done, invalid_error, flag, cpu, counting, timing>>

\* helper_uc_tracecode calls nothing once a stop is requested.
TraceSkip ==
    /\ At("trace") /\ flag["stop_request"]
    /\ Goto("check")
    /\ UNCHANGED <<nested_level, emulation_done, invalid_error, flag, cpu, counting, timing>>

\* hook_count_cb.
Counted == IF emu_counter > MaxCount THEN emu_counter ELSE emu_counter + 1
Exceeded_early == count_hook /\ Counted >= emu_count
Exceeded == count_hook /\ Counted > emu_count
hook_count_cb ==
    /\ emu_counter' = IF count_hook THEN Counted ELSE emu_counter
    /\ flag' = IF Exceeded THEN Set({"stop_request"} \cup break_translation_loop) ELSE flag

\* The code hooks run, the counter first.  A single hook is called without
\* looking at stop_request, so this is possible after a stop as well.
TraceCount ==
    /\ At("trace") /\ count_hook
    /\ hook_count_cb
    /\ Put([Top EXCEPT !.pc = "check", !.asked = IF Exceeded /\ @ = "no" THEN "count" ELSE @])
    /\ UNCHANGED <<nested_level, emulation_done, invalid_error, cpu, emu_count, count_hook, timing>>

TraceUser ==
    /\ At("trace")
    /\ ~Exceeded
    /\ hook_count_cb
    /\ Put([Top EXCEPT !.pc = "callback", !.next = "check"])
    /\ UNCHANGED <<nested_level, emulation_done, invalid_error, cpu, emu_count, count_hook, timing>>

\* The hooks of an instruction in an IT block: a request is reverted before
\* them and after them, and no exit check follows.
Revert(pc) ==
    IF flag["stop_request"] THEN GotoClearing(<<"stop_request", "exit_request", "high">>, pc)
    ELSE Goto(pc)

TraceNoStop ==
    /\ At("trace") /\ "it" \in Allow
    /\ Revert("nostop")
    /\ UNCHANGED <<nested_level, emulation_done, invalid_error, flag, cpu, counting, timing>>

TraceNoStopCall ==
    /\ At("nostop")
    /\ hook_count_cb
    /\ Put([Top EXCEPT !.pc = "callback", !.next = "revert"])
    /\ UNCHANGED <<nested_level, emulation_done, invalid_error, cpu, emu_count, count_hook, timing>>

TraceNoStopRevert ==
    /\ At("revert")
    /\ Revert("insn")
    /\ UNCHANGED <<nested_level, emulation_done, invalid_error, flag, cpu, counting, timing>>

CallbackReturn ==
    /\ InCallback
    /\ Goto(Top.next)
    /\ UNCHANGED <<nested_level, emulation_done, invalid_error, flag, cpu, counting, timing>>

-----------------------------------------------------------------------------
\* The guest code.

\* An instruction ran; the next one is in the same block, in a block this one
\* is chained to, or in one cpu_exec has to look up.
Ran(pc) ==
    /\ At("insn")
    /\ Put([Top EXCEPT !.pc = pc,
                       !.executed = IF Top.count = 0 \/ @ > MaxCount THEN @ ELSE @ + 1])
    /\ UNCHANGED <<nested_level, emulation_done, invalid_error, flag, cpu, counting, timing>>

Insn == Ran("trace")
TbEnd == \E pc \in {"tb", "high"} : Ran(pc)

\* The exit address, or the guest's halt instruction.
Halt ==
    /\ At("trace")
    /\ exception' = "hlt"
    /\ Goto("exception")
    /\ UNCHANGED <<nested_level, emulation_done, invalid_error, flag, stopped, counting, timing>>

\* An access to invalid memory no hook handled.
Fault ==
    /\ At("insn") /\ "fault" \in Allow
    /\ invalid_error' = TRUE
    /\ flag' = Set(cpu_exit)
    /\ Put([Top EXCEPT !.pc = "exception", !.failed = TRUE])
    /\ UNCHANGED <<nested_level, emulation_done, cpu, counting, timing>>

RaiseException(e) ==
    /\ At("insn")
    /\ (e = "guest" /\ "exception" \in Allow) \/ (e = "debug" /\ "debug" \in Allow)
    /\ exception' = e
    /\ Put([Top EXCEPT !.pc = "exception", !.failed = TRUE])
    /\ UNCHANGED <<nested_level, emulation_done, invalid_error, flag, stopped, counting, timing>>

-----------------------------------------------------------------------------
\* cpu_exec has returned: the rest of tcg_cpu_exec and of uc_emu_start.

Ended(why) ==
    Put([Top EXCEPT !.pc = "clear", !.todo = <<"exit_request", "high">>,
                    !.next = "exits", !.by = why])

ExecReturned_quitfirst ==
    /\ At("return")
    /\ \/ /\ flag["quit_request"]
          /\ exception' = "none"
          /\ stopped' = FALSE
          /\ GotoClearing(<<"stop_request", "exit_request">>, "verdict")
       \/ /\ flag["stop_request"] /\ ~flag["quit_request"]
          /\ Ended("stop")
          /\ UNCHANGED cpu
       \/ /\ ~flag["quit_request"] /\ ~flag["stop_request"]
          /\ Goto("verdict")
          /\ UNCHANGED cpu
    /\ UNCHANGED <<nested_level, emulation_done, invalid_error, flag, counting, timing>>

ExecReturned ==
    /\ At("return")
    /\ \/ /\ flag["quit_request"] /\ ~flag["stop_request"]
          /\ exception' = "none"
          /\ stopped' = FALSE
          /\ GotoClearing(<<"stop_request", "exit_request">>, "verdict")
       \/ /\ flag["stop_request"]
          /\ Ended("stop")
          /\ UNCHANGED cpu
       \/ /\ ~flag["quit_request"] /\ ~flag["stop_request"]
          /\ Goto("verdict")
          /\ UNCHANGED cpu
    /\ UNCHANGED <<nested_level, emulation_done, invalid_error, flag, counting, timing>>

Verdict ==
    /\ At("verdict")
    /\ \/ invalid_error /\ Ended("error") /\ UNCHANGED stopped
       \/ ~invalid_error /\ Top.ret = "debug" /\ Finish("loop") /\ stopped' = TRUE
       \/ ~invalid_error /\ Top.ret = "hlt" /\ Ended("hlt") /\ UNCHANGED stopped
       \/ ~invalid_error /\ Top.ret = "interrupt" /\ Goto("loop") /\ UNCHANGED stopped
    /\ UNCHANGED <<nested_level, emulation_done, invalid_error, flag, exception, counting, timing>>

\* The end of resume_all_vcpus: the block that ends at the exit address is
\* discarded.  uc_invalidate_tb looks the address up inside a level of its own,
\* so that a fault of the lookup jumps back here; the fault may leave a guest
\* exception pending.  An exit address of 0 is not looked up.
InvalidateExit ==
    /\ At("exits")
    /\ \/ nested_level' = nested_level + 1 /\ Goto("probe")
       \/ Goto("leave") /\ UNCHANGED nested_level
    /\ UNCHANGED <<emulation_done, invalid_error, flag, cpu, counting, timing>>

InvalidateExitDone ==
    /\ At("probe")
    /\ nested_level' = nested_level - 1
    /\ Goto("leave")
    /\ \/ UNCHANGED exception
       \/ "exception" \in Allow /\ exception' = "guest"
    /\ UNCHANGED <<emulation_done, invalid_error, flag, stopped, counting, timing>>

EmuLeave_everylevel ==
    /\ At("leave")
    /\ nested_level' = nested_level - 1
    /\ emulation_done' = TRUE
    /\ Goto("join")
    /\ UNCHANGED <<invalid_error, flag, cpu, counting, timing>>
EmuLeave_outeronly ==
    /\ At("leave")
    /\ nested_level' = IF nested_level = 1 THEN 0 ELSE nested_level
    /\ emulation_done' = (emulation_done \/ nested_level = 1)
    /\ Goto("join")
    /\ UNCHANGED <<invalid_error, flag, cpu, counting, timing>>

\* Only the outermost uc_emu_start sets emulation_done.
EmuLeave ==
    /\ At("leave")
    /\ nested_level' = nested_level - 1
    /\ emulation_done' = (emulation_done \/ nested_level = 1)
    /\ Goto("join")
    /\ UNCHANGED <<invalid_error, flag, cpu, counting, timing>>

EmuReturn_nojoin ==
    /\ At("join")
    /\ invalid_error' = FALSE
    /\ frames' = SubSeq(frames, 1, Len(frames) - 1)
    /\ UNCHANGED <<nested_level, emulation_done, flag, cpu, counting, timing>>
EmuReturn_keeperror ==
    /\ At("join")
    /\ IF Top.timer = NoTimer THEN UNCHANGED thread
       ELSE thread[timer] \in {"done", "off"} /\ thread' = [thread EXCEPT ![timer] = "off"]
    /\ frames' = SubSeq(frames, 1, Len(frames) - 1)
    /\ UNCHANGED <<nested_level, emulation_done, timed_out, invalid_error, flag, cpu, counting,
                   timer>>

\* qemu_thread_join(&uc->timer), and the return.  Joining a thread that is not
\* there is undefined; here it returns.
EmuReturn ==
    /\ At("join")
    /\ IF Top.timer = NoTimer THEN UNCHANGED thread
       ELSE thread[timer] \in {"done", "off"} /\ thread' = [thread EXCEPT ![timer] = "off"]
    /\ invalid_error' = FALSE
    /\ frames' = SubSeq(frames, 1, Len(frames) - 1)
    /\ UNCHANGED <<nested_level, emulation_done, timed_out, flag, cpu, counting, timer>>

-----------------------------------------------------------------------------
\* The timer thread: _timeout_fn.

Early(t) == \E n \in DOMAIN frames : frames[n].timer = t /\ frames[n].pc = "resume"

\* The loop ends: the emulation is done, or the time is over.
TimerLoop(t) ==
    /\ thread[t] = "wait"
    /\ emulation_done \/ "early" \in Allow \/ ~Early(t)
    /\ thread' = [thread EXCEPT ![t] = "final"]
    /\ UNCHANGED <<timed_out, flag>>

TimerFinal(t) ==
    /\ thread[t] = "final"
    /\ timed_out' = (timed_out \/ ~emulation_done)
    /\ thread' = [thread EXCEPT ![t] = IF emulation_done THEN "done" ELSE "stop"]
    /\ UNCHANGED flag

\* uc_emu_stop, called by the timer thread.
TimerStop(t) ==
    /\ thread[t] = "stop"
    /\ flag' = Set({"stop_request"})
    /\ thread' = [thread EXCEPT ![t] = "break"]
    /\ UNCHANGED timed_out

TimerBreak(t) ==
    /\ thread[t] = "break"
    /\ thread' = [thread EXCEPT ![t] = IF emulation_done THEN "done" ELSE "exit"]
    /\ UNCHANGED <<timed_out, flag>>

TimerExit(t) ==
    /\ thread[t] = "exit"
    /\ flag' = Set({"exit_request"})
    /\ thread' = [thread EXCEPT ![t] = "high"]
    /\ UNCHANGED timed_out

TimerHigh_missing(t) ==
    /\ thread[t] = "high"
    /\ thread' = [thread EXCEPT ![t] = "done"]
    /\ UNCHANGED <<timed_out, flag>>

TimerHigh(t) ==
    /\ thread[t] = "high"
    /\ flag' = Set({"high"})
    /\ thread' = [thread EXCEPT ![t] = "done"]
    /\ UNCHANGED timed_out

TimerStep(t) ==
    /\ \/ TimerLoop(t) \/ TimerFinal(t) \/ TimerStop(t)
       \/ TimerBreak(t) \/ TimerExit(t) \/ TimerHigh(t)
    /\ UNCHANGED <<frames, nested_level, emulation_done, invalid_error, cpu, counting, timer>>

-----------------------------------------------------------------------------
UserStep ==
    \/ EmuStop \/ RegWritePc \/ MemProtect \/ EmuStartRefused
    \/ \E t \in Timer \cup {NoTimer}, c \in 0..MaxCount : EmuStart(t, c)

EngineStep ==
    \/ EmuStartCount \/ EmuStartNoMem \/ EnableTimer
    \/ ClearFlag \/ ResumeAllVcpus \/ TcgCpuExec
    \/ HandleExceptionNone \/ HandleExceptionExit \/ HandleExceptionUncaught
    \/ HandleExceptionCaught \/ HandleExceptionDone
    \/ HandleInterruptHigh \/ HandleInterruptExit \/ TbFind \/ CheckExitRequest
    \/ CheckInDelaySlot
    \/ TraceNone \/ TraceSkip \/ TraceCount \/ TraceUser
    \/ TraceNoStop \/ TraceNoStopCall \/ TraceNoStopRevert
    \/ Insn \/ TbEnd \/ Halt \/ Fault \/ (\E e \in {"guest", "debug"} : RaiseException(e))
    \/ ExecReturned \/ Verdict \/ InvalidateExit \/ InvalidateExitDone \/ EmuLeave \/ EmuReturn

Next == UserStep \/ CallbackReturn \/ EngineStep \/ \E t \in Timer : TimerStep(t)

\* The threads run; callbacks return; a translation block is finite, so the
\* guest always comes to the end of one.  The guest itself need not end.
Fairness ==
    /\ WF_vars(EngineStep) /\ WF_vars(CallbackReturn)
    /\ SF_vars(TbEnd)
    /\ \A t \in Timer : WF_vars(TimerStep(t))

Spec == Init /\ [][Next]_vars /\ Fairness

-----------------------------------------------------------------------------
\* The frame of an emulation that runs, or is being set up, is the one that
\* nested_level selects: the jump buffer and the exit address that cpu_exec and
\* cpu_loop_exit index with nested_level - 1 are those of the innermost call,
\* through nested starts, refused starts and failed ones.
JumpTarget ==
    nested_level = Len(frames) + (IF At("join") THEN -1 ELSE IF At("probe") THEN 1 ELSE 0)

\* emulation_done is only seen TRUE outside every emulation: break_translation_loop
\* gives up on the cpu only when there is nothing left to stop, and a timer that
\* outlives a nested emulation does not take the outer one for finished.
DoneOutside == emulation_done => nested_level = 0

\* After a callback, or the instruction counter, has called uc_emu_stop, the
\* emulation it belongs to executes no further instruction, whatever else the
\* callback did (write the PC, run a nested emulation before it) and whatever
\* the timer does meanwhile.
StopHonoured == \A n \in DOMAIN frames : frames[n].asked # "no" => frames[n].pc # "insn"

\* uc_emu_start with count > 0 and no timeout executes at most count
\* instructions, and exactly count when the counter (hook_count_cb) stops it.
CountExact ==
    \A n \in DOMAIN frames : frames[n].count > 0 /\ frames[n].timer = NoTimer =>
        /\ frames[n].executed <= frames[n].count
        /\ frames[n].by = "stop" /\ frames[n].asked = "count" =>
               frames[n].executed = frames[n].count

\* An emulation without a timeout is stopped only if one of its callbacks or
\* the counter asked for it.
StopsOnlyWhenAsked ==
    \A n \in DOMAIN frames :
        frames[n].by = "stop" /\ frames[n].timer = NoTimer => frames[n].asked # "no"

\* An emulation fails only for an instruction of its own: the error of a nested
\* emulation is returned to the callback that started it and goes no further.
ErrorsStayLocal == \A n \in DOMAIN frames : frames[n].by = "error" => frames[n].failed

\* A timer thread lives no longer than the uc_emu_start that created it, so it
\* never stops a later emulation and never uses a closed engine.
TimerJoined ==
    \A t \in Timer : thread[t] # "off" => \E n \in DOMAIN frames : frames[n].timer = t

\* A uc_emu_start with a timeout returns, even if the guest loops forever.
TimeoutStops == frames # <<>> /\ frames[1].timer # NoTimer ~> frames = <<>>

\* Once a callback of the outermost emulation has called uc_emu_stop, that
\* emulation returns, unless the callback goes on to start a nested one.
StopStops == Len(frames) = 1 /\ frames[1].asked # "no" ~> Len(frames) # 1

=============================================================================
