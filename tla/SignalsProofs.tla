----------------------------- MODULE SignalsProofs ----------------------------
(***************************************************************************)
(* Whatever the number of signals and the size of the stack, a handler     *)
(* that returns brings back what it interrupted.                           *)
(***************************************************************************)
EXTENDS Signals, SequenceTheorems, TLAPS

(* The frame of the i-th of the handlers that run.                           *)
FrameOf(i) == frames[Len(frames) - Len(interrupted) + i]

(* The frames of the handlers that run are the last of the list, one for     *)
(* each; each holds what was interrupted, just below its stack pointer, and  *)
(* code that runs now stays below all of them.                               *)
Nested ==
    /\ Len(interrupted) <= Len(frames)
    /\ \A i \in 1 .. Len(interrupted) :
          /\ FrameOf(i) = Top(interrupted[i].sp)
          /\ memory[FrameOf(i)] = interrupted[i]
          /\ interrupted[i].r0 = Zero
          /\ cpu.sp <= FrameOf(i)
    /\ \A i, j \in 1 .. Len(interrupted) : i < j => interrupted[j].sp <= FrameOf(i)

IInv ==
    /\ TypeOK /\ Nested /\ ResumesInterrupted
    /\ ~running => interrupted = <<>>

LEMMA LastAndFront ==
    ASSUME NEW S, NEW s \in Seq(S), s # <<>>
    PROVE  /\ Last(s) \in S /\ Last(s) = s[Len(s)] /\ Len(s) \in Nat /\ 1 <= Len(s)
           /\ Front(s) \in Seq(S) /\ Len(Front(s)) = Len(s) - 1
           /\ \A i \in 1 .. Len(s) - 1 : Front(s)[i] = s[i]
  <1> DEFINE n == Len(s) - 1
  <1>1. n \in Nat /\ Len(s) \in Nat /\ 1 <= Len(s) /\ Len(s) = n + 1
    BY EmptySeq
  <1>2. s[Len(s)] \in S /\ \A i \in 1 .. n : s[i] \in S
    BY <1>1
  <1>3. /\ SubSeq(s, 1, n) \in Seq(S) /\ Len(SubSeq(s, 1, n)) = (IF 1 <= n THEN n - 1 + 1 ELSE 0)
        /\ \A i \in 1 .. n - 1 + 1 : SubSeq(s, 1, n)[i] = s[1 + i - 1]
    <2> HIDE DEF n
    <2> QED BY <1>1, <1>2, SubSeqProperties
  <1>4. Len(SubSeq(s, 1, n)) = n /\ \A i \in 1 .. n : SubSeq(s, 1, n)[i] = s[i]
    <2>1. n - 1 + 1 = n /\ (IF 1 <= n THEN n - 1 + 1 ELSE 0) = n /\ \A i \in 1 .. n : 1 + i - 1 = i
      <3> HIDE DEF n
      <3> QED BY <1>1
    <2> HIDE DEF n
    <2> QED BY <1>3, <2>1
  <1> QED BY <1>1, <1>2, <1>3, <1>4 DEF Last, Front

LEMMA InitIInv == Init => IInv
  <1> SUFFICES ASSUME Init PROVE IInv
    OBVIOUS
  <1>1. Started \in Context
    BY SignalsAssumption DEF Started, Registers, Context
  <1>2. TypeOK
    <2>1. frames \in Seq(Address) /\ interrupted \in Seq(Context)
      BY DEF Init
    <2>2. memory \in [Address -> Context] /\ cpu \in Context
      BY <1>1 DEF Init
    <2> QED BY <2>1, <2>2 DEF Init, TypeOK
  <1>3. Nested /\ ResumesInterrupted
    BY DEF Init, Nested, ResumesInterrupted
  <1> QED BY <1>2, <1>3 DEF IInv, Init

(* A run that ends, and code that runs on where no handler does.             *)
LEMMA OutsideHandlers ==
    ASSUME IInv, interrupted' = <<>>, UNCHANGED <<frames, memory>>, cpu' \in Context,
           handled' \subseteq Sig, slot' \in BOOLEAN, running' \in BOOLEAN, resumed' = None
    PROVE  IInv'
  <1>1. TypeOK'
    BY DEF IInv, TypeOK
  <1>2. Nested' /\ ResumesInterrupted'
    BY DEF IInv, TypeOK, Nested, ResumesInterrupted
  <1> QED BY <1>1, <1>2 DEF IInv

(* Code that runs on, in a handler or not, with its stack below the frames.  *)
LEMMA RunsOn ==
    ASSUME IInv, UNCHANGED <<frames, memory, interrupted>>, cpu' \in Context,
           \A i \in 1 .. Len(interrupted) : cpu'.sp <= FrameOf(i),
           handled' \subseteq Sig, slot' \in BOOLEAN, UNCHANGED running, resumed' = None
    PROVE  IInv'
  <1>1. TypeOK'
    BY DEF IInv, TypeOK
  <1>2. Nested' /\ ResumesInterrupted'
    BY DEF IInv, TypeOK, Nested, ResumesInterrupted, FrameOf
  <1> QED BY <1>1, <1>2 DEF IInv

LEMMA EnterHandlerKeepsIInv ==
    ASSUME IInv, NEW sig \in Sig, EnterHandler(sig), running PROVE IInv'
  <1> DEFINE top == Top(cpu.sp)
             saved == Registers(cpu.pc, cpu.sp, Zero)
             n == Len(interrupted)
             k == Len(frames)
  <1>1. /\ top \in Address /\ top = cpu.sp - 1 /\ saved \in Context /\ saved.sp = cpu.sp /\ saved.r0 = Zero
        /\ interrupted \in Seq(Context) /\ frames \in Seq(Address) /\ memory \in [Address -> Context]
        /\ cpu.sp \in Int
    BY DEF IInv, TypeOK, EnterHandler, Context, Registers, Top
  <1>a. top \in 0 .. STACK
    BY <1>1, SignalsAssumption DEF Address
  <1>b. Answered(Registers(Entry, top, sig)) = Registers(Entry, top, Zero)
    BY DEF Answered, Registers
  <1>2. /\ memory' = [memory EXCEPT ![top] = saved]
        /\ frames' = Append(frames, top) /\ interrupted' = Append(interrupted, saved)
        /\ cpu'.sp = top /\ cpu' \in Context /\ resumed' = None
    <2>1. cpu' = Registers(Entry, top, Zero)
      BY <1>b DEF EnterHandler
    <2>2. cpu'.sp = top /\ cpu' \in Context
      BY <1>a, <2>1, SignalsAssumption DEF Registers, Context
    <2> QED BY <2>2 DEF EnterHandler
  <1>3. TypeOK'
    <2>1. frames' \in Seq(Address) /\ interrupted' \in Seq(Context)
      BY <1>1, <1>2
    <2>2. memory' \in [Address -> Context] /\ cpu' \in Context
      BY <1>1, <1>2
    <2> QED BY <2>1, <2>2 DEF IInv, TypeOK, EnterHandler
  <1>4. Len(interrupted') = n + 1 /\ Len(frames') = k + 1 /\ n \in Nat /\ k \in Nat /\ n <= k
    BY <1>1, <1>2 DEF IInv, Nested
  <1>5. ASSUME NEW i \in 1 .. n
        PROVE  /\ interrupted'[i] = interrupted[i] /\ FrameOf(i)' = FrameOf(i)
               /\ FrameOf(i) \in Address /\ top < FrameOf(i)
               /\ memory'[FrameOf(i)] = memory[FrameOf(i)]
    <2>1. interrupted'[i] = interrupted[i]
      BY <1>1, <1>2
    <2>2. k - n + i \in 1 .. k /\ Len(frames') - Len(interrupted') + i = k - n + i
      BY <1>4
    <2>3. FrameOf(i)' = FrameOf(i) /\ FrameOf(i) \in Address
      BY <1>1, <1>2, <2>2 DEF FrameOf
    <2>4. FrameOf(i) \in Int /\ top \in Int
      BY <1>1, <2>3, SignalsAssumption DEF Address
    <2>5. cpu.sp <= FrameOf(i)
      BY DEF IInv, Nested
    <2>6. top < FrameOf(i)
      BY <1>1, <2>4, <2>5
    <2> QED BY <1>1, <1>2, <2>1, <2>3, <2>4, <2>6
  <1>6. ASSUME NEW i, i = n + 1
        PROVE  interrupted'[i] = saved /\ FrameOf(i)' = top /\ memory'[top] = saved
    <2>1. Len(frames') - Len(interrupted') + i = k + 1
      BY <1>4, <1>6
    <2>2. frames'[k + 1] = top /\ interrupted'[i] = saved
      BY <1>1, <1>2, <1>6
    <2>3. FrameOf(i)' = top
      BY <2>1, <2>2 DEF FrameOf
    <2> QED BY <1>1, <1>2, <2>2, <2>3
  <1>7. ASSUME NEW i \in 1 .. n + 1
        PROVE  /\ FrameOf(i)' = Top(interrupted'[i].sp)
               /\ memory'[FrameOf(i)'] = interrupted'[i]
               /\ interrupted'[i].r0 = Zero
               /\ cpu'.sp <= FrameOf(i)'
    <2>1. CASE i = n + 1
      <3>1. top <= top /\ top = Top(saved.sp)
        BY <1>1, SignalsAssumption DEF Address, Top
      <3> HIDE DEF top, saved
      <3> QED BY <1>1, <1>2, <1>6, <2>1, <3>1
    <2>2. CASE i # n + 1
      <3>1. i \in 1 .. n
        BY <1>4, <2>2
      <3>2. /\ FrameOf(i) = Top(interrupted[i].sp) /\ memory[FrameOf(i)] = interrupted[i]
            /\ interrupted[i].r0 = Zero
        BY <3>1 DEF IInv, Nested
      <3>3. FrameOf(i) \in Int /\ top \in Int /\ top < FrameOf(i)
        BY <1>1, <1>5, <3>1, SignalsAssumption DEF Address
      <3>4. top <= FrameOf(i)
        BY <3>3
      <3> HIDE DEF top, saved, n
      <3> QED BY <1>2, <1>5, <3>1, <3>2, <3>4
    <2> QED BY <2>1, <2>2
  <1>8. ASSUME NEW i \in 1 .. n + 1, NEW j \in 1 .. n + 1, i < j
        PROVE  interrupted'[j].sp <= FrameOf(i)'
    <2>1. i \in 1 .. n
      BY <1>4, <1>8
    <2>2. CASE j = n + 1
      BY <1>1, <1>5, <1>6, <2>1, <2>2 DEF IInv, Nested
    <2>3. CASE j # n + 1
      <3>1. j \in 1 .. n
        BY <1>4, <2>3
      <3> QED BY <1>5, <1>8, <2>1, <3>1 DEF IInv, Nested
    <2> QED BY <2>2, <2>3
  <1>9. Nested'
    <2>1. Len(interrupted') <= Len(frames')
      BY <1>4
    <2> QED BY <1>4, <1>7, <1>8, <2>1 DEF Nested
  <1> QED BY <1>2, <1>3, <1>9 DEF IInv, ResumesInterrupted, EnterHandler

LEMMA ReturnKeepsIInv ==
    ASSUME IInv, Return, cpu' \in {memory[Frame], Answered(memory[Frame])}
    PROVE  IInv'
  <1> DEFINE n == Len(interrupted)
             k == Len(frames)
  <1>1. /\ interrupted \in Seq(Context) /\ frames \in Seq(Address) /\ memory \in [Address -> Context]
        /\ n \in Nat /\ k \in Nat /\ 1 <= n /\ n <= k
    BY DEF IInv, TypeOK, Nested, Return
  <1>2. Frame = FrameOf(n) /\ Frame \in Address /\ memory[Frame] = interrupted[n]
    <2>1. k - n + n = k
      BY <1>1
    <2> QED BY <1>1, <2>1 DEF Frame, FrameOf, Last, IInv, Nested
  <1>3. interrupted[n] \in Context /\ interrupted[n].r0 = Zero
    BY <1>1 DEF IInv, Nested
  <1>4. cpu' = interrupted[n]
    BY <1>2, <1>3 DEF Answered, Context
  <1>5. /\ frames' = SubSeq(frames, 1, k - 1) /\ interrupted' = SubSeq(interrupted, 1, n - 1)
        /\ memory' = memory /\ resumed' = interrupted[n]
    BY DEF Return, Front, Last
  <1>6. /\ frames' \in Seq(Address) /\ interrupted' \in Seq(Context)
        /\ Len(frames') = k - 1 /\ Len(interrupted') = n - 1
        /\ \A i \in 1 .. k - 1 : frames'[i] = frames[i]
        /\ \A i \in 1 .. n - 1 : interrupted'[i] = interrupted[i]
    BY <1>1, <1>5, LastAndFront DEF Return, Front
  <1>7. TypeOK'
    BY <1>3, <1>4, <1>6 DEF IInv, TypeOK, Return
  <1>8. ASSUME NEW i \in 1 .. n - 1
        PROVE  /\ i \in 1 .. n /\ i < n /\ interrupted'[i] = interrupted[i]
               /\ FrameOf(i)' = FrameOf(i) /\ cpu'.sp <= FrameOf(i)
    <2>1. i \in 1 .. n /\ i < n /\ n \in 1 .. n
      BY <1>1
    <2>2. k - n + i \in 1 .. k - 1 /\ Len(frames') - Len(interrupted') + i = k - n + i
      BY <1>1, <1>6
    <2>3. FrameOf(i)' = FrameOf(i)
      BY <1>6, <2>2 DEF FrameOf
    <2> QED BY <1>4, <1>6, <2>1, <2>3 DEF IInv, Nested
  <1>9. Nested'
    <2>1. Len(interrupted') <= Len(frames')
      BY <1>1, <1>6
    <2>2. ASSUME NEW i \in 1 .. n - 1
          PROVE  /\ FrameOf(i)' = Top(interrupted'[i].sp)
                 /\ memory'[FrameOf(i)'] = interrupted'[i]
                 /\ interrupted'[i].r0 = Zero
                 /\ cpu'.sp <= FrameOf(i)'
      BY <1>5, <1>8 DEF IInv, Nested
    <2>3. ASSUME NEW i \in 1 .. n - 1, NEW j \in 1 .. n - 1, i < j
          PROVE  interrupted'[j].sp <= FrameOf(i)'
      BY <1>8, <2>3 DEF IInv, Nested
    <2> QED BY <1>6, <2>1, <2>2, <2>3 DEF Nested
  <1> QED BY <1>4, <1>5, <1>7, <1>9 DEF IInv, ResumesInterrupted, Return

LEMMA FramesAreAddresses ==
    ASSUME IInv, NEW i \in 1 .. Len(interrupted) PROVE FrameOf(i) \in Address /\ FrameOf(i) \in Int
  <1>1. frames \in Seq(Address) /\ Len(interrupted) \in Nat /\ Len(interrupted) <= Len(frames)
    BY DEF IInv, TypeOK, Nested
  <1>2. Len(frames) - Len(interrupted) + i \in 1 .. Len(frames)
    BY <1>1
  <1> QED BY <1>1, <1>2, SignalsAssumption DEF FrameOf, Address

(* What code pushes stays below the frame of the handler it runs in.         *)
LEMMA BaseBelowFrames ==
    ASSUME IInv PROVE Base \in Int /\ Base <= STACK /\ \A i \in 1 .. Len(interrupted) : Base <= FrameOf(i)
  <1>1. CASE interrupted = <<>>
    BY <1>1, SignalsAssumption DEF Base
  <1>2. CASE interrupted # <<>>
    <2> DEFINE n == Len(interrupted)
    <2>1. interrupted \in Seq(Context) /\ frames \in Seq(Address) /\ n \in 1 .. n /\ n <= Len(frames)
      BY <1>2 DEF IInv, TypeOK, Nested
    <2>a. interrupted[n] \in Context
      BY <2>1
    <2>2. interrupted[n].sp \in 0 .. STACK /\ Base = interrupted[n].sp - 1
      BY <1>2, <2>a DEF Base, Last, Top, Context
    <2>3. ASSUME NEW i \in 1 .. n PROVE Base <= FrameOf(i)
      <3>2. FrameOf(i) \in Int
        BY FramesAreAddresses
      <3>3. CASE i = n
        BY <2>2, <3>3 DEF IInv, Nested, Top
      <3>4. CASE i # n
        BY <2>1, <2>2, <3>2, <3>4 DEF IInv, Nested
      <3> QED BY <3>3, <3>4
    <2> QED BY <2>2, <2>3, SignalsAssumption
  <1> QED BY <1>1, <1>2

LEMMA NextKeepsIInv == IInv /\ [Next]_vars => IInv'
  <1> SUFFICES ASSUME IInv, [Next]_vars PROVE IInv'
    OBVIOUS
  <1> USE SignalsAssumption
  <1>a. /\ handled \subseteq Sig /\ slot \in BOOLEAN /\ running \in BOOLEAN /\ cpu \in Context
        /\ Started \in Context
        /\ \A i \in 1 .. Len(interrupted) : cpu.sp <= FrameOf(i)
    BY DEF IInv, TypeOK, Nested, Started, Registers, Context
  <1>b. Answered(cpu) \in Context /\ Answered(cpu).sp = cpu.sp
    BY <1>a DEF Answered, Context
  <1>1. CASE Call
    BY <1>1, <1>a, OutsideHandlers DEF Call, guest, Quiet, IInv
  <1>2. CASE End
    BY <1>2, <1>a, OutsideHandlers DEF End, guest, Quiet
  <1>3. CASE Work
    <2>1. PICK pc \in Point, sp \in 0 .. Base, r0 \in Sig \cup {Zero} : cpu' = Registers(pc, sp, r0)
      BY <1>3 DEF Work
    <2>a. cpu'.sp = sp /\ sp \in 0 .. STACK /\ cpu' \in Context
      BY <2>1, BaseBelowFrames DEF Registers, Context
    <2>b. ASSUME NEW i \in 1 .. Len(interrupted) PROVE sp <= FrameOf(i)
      <3>1. Base \in Int /\ Base <= FrameOf(i)
        BY BaseBelowFrames
      <3>2. FrameOf(i) \in Int
        BY FramesAreAddresses
      <3> QED BY <2>1, <3>1, <3>2
    <2>2. cpu' \in Context /\ \A i \in 1 .. Len(interrupted) : cpu'.sp <= FrameOf(i)
      BY <2>a, <2>b
    <2> QED BY <1>3, <1>a, <2>2, RunsOn DEF Work, guest, Quiet
  <1>4. CASE LongJump
    <2>1. cpu' \in Context
      BY <1>4 DEF LongJump, Registers, Context
    <2> QED BY <1>4, <1>a, <2>1, OutsideHandlers DEF LongJump, guest, Quiet
  <1>5. ASSUME NEW sig \in Sig, RtSigaction(sig) PROVE IInv'
    BY <1>5, <1>a, <1>b, RunsOn DEF RtSigaction, Quiet
  <1>6. ASSUME NEW sig \in Sig, Handled(sig) PROVE IInv'
    <2>1. CASE EnterHandler(sig)
      BY <1>6, <2>1, EnterHandlerKeepsIInv DEF Handled
    <2>2. CASE EnterFails
      BY <1>a, <2>2, OutsideHandlers DEF EnterFails, Quiet
    <2> QED BY <1>6, <2>1, <2>2 DEF Handled
  <1>7. ASSUME NEW sig \in Sig, NotHandled(sig) PROVE IInv'
    <2>1. CASE sig \in Fatal
      BY <1>7, <1>a, <2>1, OutsideHandlers DEF NotHandled, guest, Quiet
    <2>2. CASE sig \notin Fatal
      BY <1>7, <1>a, <1>b, <2>2, RunsOn DEF NotHandled, guest, Quiet
    <2> QED BY <2>1, <2>2
  <1>8. CASE SigreturnSlot
    BY <1>8, ReturnKeepsIInv DEF SigreturnSlot
  <1>9. CASE RtSigreturn
    BY <1>9, ReturnKeepsIInv DEF RtSigreturn
  <1>10. CASE UNCHANGED vars
    BY <1>10 DEF vars, IInv, TypeOK, Nested, FrameOf, ResumesInterrupted
  <1> QED BY <1>1, <1>2, <1>3, <1>4, <1>5, <1>6, <1>7, <1>8, <1>9, <1>10 DEF Next

(* A handler that returns brings back what it interrupted, for any signals,  *)
(* nesting and stack.                                                        *)
THEOREM ResumesInterruptedAlways == Spec => []ResumesInterrupted
  <1>1. IInv => ResumesInterrupted
    BY DEF IInv
  <1> QED BY <1>1, InitIInv, NextKeepsIInv, PTL DEF Spec
=============================================================================
