---- MODULE ReplayWindowProofs ----
(***************************************************************************)
(* Proofs about ReplayWindowHistory, for every counter width, window size, *)
(* set of numbers and number of reports in flight.                         *)
(***************************************************************************)
EXTENDS ReplayWindowHistory, SerialNumbersProofs

(* The window fits the counter, and half the counter is less than all of it. *)
LEMMA HalfRangeFacts ==
    HalfRange \in Nat /\ HalfRange >= 1 /\ 2 * HalfRange < Modulus /\ Size \in Nat /\ Size >= 1
  BY ModulusAssumption, WindowAssumption DEF HalfRange

(* Within reach, the wrapped differences tell exactly how far apart two *)
(* true numbers are and which one is ahead.                             *)
LEMMA ReachJumps ==
    ASSUME NEW t \in Int, NEW n \in Int, n - t \in HalfRange - Modulus .. HalfRange - 1
    PROVE  /\ n >= t => Jump(Wrap(t), Wrap(n)) = n - t
           /\ n < t => Jump(Wrap(t), Wrap(n)) = Modulus - (t - n)
           /\ n <= t => Jump(Wrap(n), Wrap(t)) = t - n
           /\ n > t => Jump(Wrap(n), Wrap(t)) = Modulus - (n - t)
  <1> USE ModulusAssumption, HalfRangeFacts
  <1>1. n >= t => Jump(Wrap(t), Wrap(n)) = n - t
    BY JumpWrap
  <1>2. n < t => Jump(Wrap(t), Wrap(n)) = Modulus - (t - n)
    BY JumpWrapBack
  <1>3. n <= t => Jump(Wrap(n), Wrap(t)) = t - n
    BY JumpWrap
  <1>4. n > t => Jump(Wrap(n), Wrap(t)) = Modulus - (n - t)
    BY JumpWrapBack
  <1> QED BY <1>1, <1>2, <1>3, <1>4

(* What ApplyWindowCheck decides, in terms of true numbers. *)
LEMMA AcceptsMeaning ==
    ASSUME TypeOK, WindowMatches, ~window.first, NEW n \in Nat, InReach(n)
    PROVE  /\ IsForward(window, Wrap(n)) <=> n > top
           /\ Accepts(window, Wrap(n)) <=>
                 n > top \/ (top - n \in 1 .. Size - 1 /\ top - n \notin window.bits)
           /\ n <= top => Jump(Wrap(n), window.right) = top - n
           /\ n > top => Jump(window.right, Wrap(n)) = n - top
  <1>1. top \in Int /\ window.right = Wrap(top) /\ n - top \in HalfRange - Modulus .. HalfRange - 1
    BY DEF TypeOK, WindowMatches, InReach
  <1>2. n > top => Jump(window.right, Wrap(n)) = n - top
    BY <1>1, ReachJumps
  <1>3. n <= top => Jump(Wrap(n), window.right) = top - n
    BY <1>1, ReachJumps
  <1>4. IsForward(window, Wrap(n)) <=> n > top
    <2>1. CASE n > top
      BY <2>1, <1>1, <1>2, HalfRangeFacts DEF IsForward
    <2>2. CASE n = top
      BY <2>2, <1>1, ReachJumps, HalfRangeFacts DEF IsForward
    <2>3. CASE n < top
      <3>1. Jump(window.right, Wrap(n)) = Modulus - (top - n)
        BY <2>3, <1>1, ReachJumps
      <3> QED BY <2>3, <3>1, <1>1, HalfRangeFacts, ModulusAssumption DEF IsForward
    <2> QED BY <1>1, <2>1, <2>2, <2>3
  <1>5. Accepts(window, Wrap(n)) <=>
          n > top \/ (top - n \in 1 .. Size - 1 /\ top - n \notin window.bits)
    <2>1. CASE n > top
      BY <2>1, <1>4 DEF Accepts
    <2>2. CASE ~(n > top)
      <3>1. Jump(Wrap(n), window.right) = top - n
        BY <2>2, <1>1, <1>3
      <3> QED BY <2>2, <3>1, <1>4 DEF Accepts
    <2> QED BY <2>1, <2>2
  <1> QED BY <1>2, <1>3, <1>4, <1>5

-----------------------------------------------------------------------------
(* Windows, reports and history keep their types. *)
LEMMA ShiftType ==
    ASSUME NEW bits, NEW k, NEW size \in Nat, size <= Size
    PROVE  ShiftWithin(bits, k, size) \in SUBSET Distances
  BY HalfRangeFacts DEF ShiftWithin, Distances

(* A new pair of windows (MakeReplayWindow) has its types. *)
LEMMA InitTypeOK == Init => TypeOK
  <1> SUFFICES ASSUME Init PROVE TypeOK
    OBVIOUS
  <1>1. MakeReplayWindow \in Windows
    BY ModulusAssumption DEF MakeReplayWindow, Windows, Numbers
  <1> QED BY <1>1 DEF Init, TypeOK

(* ApplyWindowCheck leaves a window: no bit is shifted beyond its left end. *)
LEMMA ApplyTypeOK ==
    ASSUME TypeOK, NEW n \in Arrivals, Apply(n)
    PROVE  TypeOK'
  <1>1. n \in Nat /\ Wrap(n) \in Numbers
    BY ArrivalsAssumption, WrapType
  <1>2. window' \in Windows
    <2>1. 0 \in Distances
      BY HalfRangeFacts DEF Distances
    <2>2. Jump(Wrap(n), window.right) \in 1 .. Size - 1 => Jump(Wrap(n), window.right) \in Distances
      BY HalfRangeFacts DEF Distances
    <2>3. Shift(window.bits, Jump(window.right, Wrap(n))) \in SUBSET Distances
      BY ShiftType, HalfRangeFacts DEF Shift
    <2>4. CASE window.first
      BY <1>1, <2>1, <2>4 DEF Apply, AfterCheck, Windows
    <2>5. CASE ~window.first /\ IsForward(window, Wrap(n))
      <3>1. window' = [window EXCEPT !.right = Wrap(n),
                                     !.bits = {0} \cup Shift(@, Jump(window.right, Wrap(n)))]
        BY <2>5 DEF Apply, AfterCheck
      <3> QED BY <1>1, <2>1, <2>3, <3>1 DEF TypeOK, Windows
    <2>6. CASE ~window.first /\ ~IsForward(window, Wrap(n)) /\ Accepts(window, Wrap(n))
      <3>1. window' = [window EXCEPT !.bits = @ \cup {Jump(Wrap(n), window.right)}]
        BY <2>6 DEF Apply, AfterCheck
      <3>2. Jump(Wrap(n), window.right) \in Distances
        BY <2>2, <2>6 DEF Accepts
      <3> QED BY <3>1, <3>2 DEF TypeOK, Windows
    <2>7. CASE ~window.first /\ ~IsForward(window, Wrap(n)) /\ ~Accepts(window, Wrap(n))
      BY <2>7 DEF Apply, AfterCheck, TypeOK
    <2> QED BY <2>4, <2>5, <2>6, <2>7
  <1>3. top' \in Nat /\ accepted' \subseteq Nat
    BY <1>1 DEF Apply, TypeOK
  <1> QED BY <1>2, <1>3 DEF Apply, TypeOK

(* GetWindowDataBytes reports an edge and bits of the window. *)
LEMMA ReportTypeOK ==
    ASSUME TypeOK, NEW limit \in 1 .. WordCount, Report(limit)
    PROVE  TypeOK'
  <1>1. GetWindowData(window, limit) \in Reports
    BY DEF TypeOK, Windows, GetWindowData, Reports
  <1> QED BY <1>1 DEF Report, TypeOK

(* JoinWindowData leaves a window, whatever report it joins. *)
LEMMA JoinTypeOK ==
    ASSUME TypeOK, NEW ack \in acks, Join(ack)
    PROVE  TypeOK'
  <1>1. ack.top \in Nat /\ ack.data \in Reports
    BY DEF TypeOK
  <1>2. Shift(mirror.bits, Jump(mirror.right, ack.data.right)) \in SUBSET Distances
    BY ShiftType, HalfRangeFacts DEF Shift
  <1>3. mirror' \in Windows
    <2>1. CASE Jump(mirror.right, ack.data.right) < HalfRange
      <3>1. mirror' = [first |-> FALSE, right |-> ack.data.right,
                       bits |-> Shift(mirror.bits, Jump(mirror.right, ack.data.right))
                                  \cup ack.data.bits]
        BY <2>1 DEF Join, JoinWindowData
      <3> QED BY <1>1, <1>2, <3>1 DEF Reports, Windows
    <2>2. CASE ~(Jump(mirror.right, ack.data.right) < HalfRange)
      BY <2>2, <1>1 DEF Join, JoinWindowData, TypeOK, Windows
    <2> QED BY <2>1, <2>2
  <1> QED BY <1>1, <1>3 DEF Join, TypeOK

(* Every reachable state has its types. *)
THEOREM TypeCorrect == Spec => []TypeOK
  <1>1. TypeOK /\ [Next]_vars => TypeOK'
    <2> SUFFICES ASSUME TypeOK, [Next]_vars PROVE TypeOK'
      OBVIOUS
    <2>1. ASSUME NEW n \in Arrivals, Apply(n) PROVE TypeOK'
      BY <2>1, ApplyTypeOK
    <2>2. ASSUME NEW limit \in 1 .. WordCount, Report(limit) PROVE TypeOK'
      BY <2>2, ReportTypeOK
    <2>3. ASSUME NEW ack \in acks, Join(ack) PROVE TypeOK'
      BY <2>3, JoinTypeOK
    <2>4. ASSUME NEW ack \in acks, Lose(ack) PROVE TypeOK'
      BY <2>4 DEF Lose, TypeOK
    <2>5. CASE UNCHANGED vars
      BY <2>5 DEF vars, TypeOK
    <2> QED BY <2>1, <2>2, <2>3, <2>4, <2>5 DEF Next
  <1> QED BY <1>1, InitTypeOK, PTL DEF Spec

-----------------------------------------------------------------------------
(* The windows agree with the history of accepted numbers. *)
LEMMA InitMatches == Init => WindowsMatchHistory
  <1>1. Wrap(0) = 0
    BY ModulusAssumption DEF Wrap
  <1> QED BY <1>1 DEF Init, MakeReplayWindow, WindowsMatchHistory, WindowMatches, AcksMatch,
             MirrorMatches

(* The bits of a window moved forward: the new edge, and the old numbers still in it. *)
LEMMA ForwardBits ==
    ASSUME TypeOK, WindowMatches, ~window.first, NEW n \in Nat, n > top
    PROVE  \A d \in Distances :
              d \in {0} \cup Shift(window.bits, n - top) <=> n - d \in accepted \cup {n}
  <1> SUFFICES ASSUME NEW d \in Distances
               PROVE  d \in {0} \cup Shift(window.bits, n - top) <=> n - d \in accepted \cup {n}
    OBVIOUS
  <1> DEFINE e == d - (n - top)
  <1>1. /\ top \in Nat /\ accepted \subseteq Nat /\ d \in Nat /\ d < Size /\ e \in Int
        /\ n - d = top - e /\ e < d
        /\ window.bits \subseteq Distances
    BY HalfRangeFacts DEF TypeOK, Windows, Distances
  <1>2. d \in Shift(window.bits, n - top) <=> e \in window.bits
    BY <1>1, HalfRangeFacts DEF Shift, ShiftWithin, Distances
  <1>3. CASE d = 0
    BY <1>1, <1>3
  <1>4. CASE d # 0 /\ e \in Nat
    <2>1. e \in Distances
      BY <1>1, <1>4, HalfRangeFacts DEF Distances
    <2>2. e \in window.bits <=> top - e \in accepted
      BY <2>1 DEF WindowMatches
    <2> QED BY <1>1, <1>2, <1>4, <2>2
  <1>5. CASE d # 0 /\ e \notin Nat
    <2>1. e \notin window.bits
      BY <1>1, <1>5 DEF Distances
    <2>2. top - e > top /\ n - d # n
      BY <1>1, <1>5
    <2>3. n - d \notin accepted
      BY <1>1, <2>2 DEF WindowMatches
    <2> QED BY <1>2, <1>5, <2>1, <2>2, <2>3
  <1> QED BY <1>3, <1>4, <1>5

(* ApplyWindowCheck keeps the window equal to the history, bit by bit. *)
LEMMA ApplyWindowMatches ==
    ASSUME TypeOK, WindowMatches, NEW n \in Arrivals, Apply(n)
    PROVE  WindowMatches'
  <1>0. n \in Nat /\ InReach(n) /\ Wrap(n) \in Numbers /\ window \in Windows /\ top \in Nat
    BY ArrivalsAssumption, WrapType DEF Apply, TypeOK
  <1>1. CASE window.first
    <2>1. /\ window' = [first |-> FALSE, right |-> Wrap(n), bits |-> {0}]
          /\ top' = n /\ accepted' = {n}
      BY <1>1 DEF Apply, AfterCheck, Accepts, WindowMatches
    <2>2. \A d \in Distances : d \in {0} <=> n - d \in {n}
      BY <1>0, HalfRangeFacts DEF Distances
    <2> QED BY <2>1, <2>2, <1>0 DEF WindowMatches
  <1>2. CASE ~window.first /\ n > top
    <2>1. /\ window' = [window EXCEPT !.right = Wrap(n),
                                      !.bits = {0} \cup Shift(@, n - top)]
          /\ top' = n /\ accepted' = accepted \cup {n}
      BY <1>0, <1>2, AcceptsMeaning DEF Apply, AfterCheck
    <2>2. /\ window'.right = Wrap(n) /\ window'.first = FALSE
          /\ window'.bits = {0} \cup Shift(window.bits, n - top)
      BY <1>0, <1>2, <2>1 DEF Windows
    <2>3. \A m \in accepted' : m <= n
      BY <1>0, <1>2, <2>1 DEF TypeOK, WindowMatches
    <2>4. \A d \in Distances : d \in window'.bits <=> n - d \in accepted'
      BY <1>0, <1>2, <2>1, <2>2, ForwardBits
    <2> QED BY <2>1, <2>2, <2>3, <2>4 DEF WindowMatches
  <1>3. CASE ~window.first /\ ~(n > top)
    <2>1. ~IsForward(window, Wrap(n)) /\ top' = top
      BY <1>0, <1>3, AcceptsMeaning DEF Apply
    <2>2. CASE Accepts(window, Wrap(n))
      <3>1. /\ top - n \in Distances
            /\ window' = [window EXCEPT !.bits = @ \cup {top - n}]
            /\ accepted' = accepted \cup {n}
        BY <1>0, <1>3, <2>1, <2>2, AcceptsMeaning DEF Apply, AfterCheck, Distances
      <3>2. /\ window'.right = window.right /\ window'.first = window.first
            /\ window'.bits = window.bits \cup {top - n}
        BY <1>0, <3>1 DEF Windows
      <3>3. \A d \in Distances : d = top - n <=> top - d = n
        BY <1>0 DEF Distances
      <3>4. \A d \in Distances : d \in window'.bits <=> top - d \in accepted'
        BY <3>1, <3>2, <3>3 DEF WindowMatches
      <3> QED BY <1>0, <1>3, <2>1, <3>1, <3>2, <3>4 DEF WindowMatches
    <2>3. CASE ~Accepts(window, Wrap(n))
      <3>1. window' = window /\ accepted' = accepted
        BY <1>3, <2>1, <2>3 DEF Apply, AfterCheck
      <3> QED BY <2>1, <3>1 DEF WindowMatches
    <2> QED BY <2>2, <2>3
  <1> QED BY <1>1, <1>2, <1>3

(* ApplyWindowCheck only adds to the history, so reports and mirror stay true. *)
LEMMA ApplyMatches ==
    ASSUME TypeOK, WindowsMatchHistory, NEW n \in Arrivals, Apply(n)
    PROVE  WindowsMatchHistory'
  <1>1. WindowMatches'
    BY ApplyWindowMatches DEF WindowsMatchHistory
  <1>2. accepted \subseteq accepted'
    BY DEF Apply
  <1>3. AcksMatch'
    BY <1>2 DEF Apply, WindowsMatchHistory, AcksMatch
  <1>4. MirrorMatches'
    BY <1>2 DEF Apply, WindowsMatchHistory, MirrorMatches
  <1> QED BY <1>1, <1>3, <1>4 DEF WindowsMatchHistory

(* A report taken from a true window is true. *)
LEMMA ReportMatches ==
    ASSUME TypeOK, WindowsMatchHistory, NEW limit \in 1 .. WordCount, Report(limit)
    PROVE  WindowsMatchHistory'
  <1>1. window.bits \subseteq Distances
    BY DEF TypeOK, Windows
  <1>2. \A d \in GetWindowData(window, limit).bits : top - d \in accepted
    BY <1>1 DEF GetWindowData, WindowsMatchHistory, WindowMatches
  <1>3. GetWindowData(window, limit).right = Wrap(top)
    BY DEF GetWindowData, WindowsMatchHistory, WindowMatches
  <1>4. AcksMatch'
    BY <1>2, <1>3 DEF Report, AcksMatch, WindowsMatchHistory
  <1> QED BY <1>4 DEF Report, WindowsMatchHistory, WindowMatches, MirrorMatches

(* Joining a true report keeps the mirror true: moved forward the mirror is *)
(* shifted, otherwise the report is, and no bit changes its number.        *)
LEMMA JoinMatches ==
    ASSUME TypeOK, WindowsMatchHistory, NEW ack \in acks, Join(ack)
    PROVE  WindowsMatchHistory'
  <1> DEFINE data == ack.data
  <1>1. /\ mirrorTop \in Nat /\ ack.top \in Nat /\ mirror \in Windows
        /\ data \in Reports /\ data.right = Wrap(ack.top) /\ mirror.right = Wrap(mirrorTop)
        /\ ack.top - mirrorTop \in HalfRange - Modulus .. HalfRange - 1
        /\ mirror' = JoinWindowData(mirror, data)
        /\ \A d \in data.bits : ack.top - d \in accepted
        /\ \A d \in mirror.bits : mirrorTop - d \in accepted
        /\ accepted' = accepted /\ accepted \subseteq Nat
    BY DEF Join, JoinInReach, TypeOK, WindowsMatchHistory, AcksMatch, MirrorMatches
  <1>2. CASE ack.top >= mirrorTop
    <2>1. Jump(mirror.right, data.right) = ack.top - mirrorTop
      BY <1>1, <1>2, ReachJumps
    <2>2. mirror' = [first |-> FALSE, right |-> data.right,
                     bits |-> Shift(mirror.bits, ack.top - mirrorTop) \cup data.bits]
      BY <1>1, <1>2, <2>1, HalfRangeFacts DEF JoinWindowData
    <2>3. mirrorTop' = ack.top
      BY <1>1, <1>2 DEF Join
    <2>4. ASSUME NEW d \in Shift(mirror.bits, ack.top - mirrorTop)
          PROVE  ack.top - d \in accepted
      <3>1. d \in Nat /\ d - (ack.top - mirrorTop) \in mirror.bits
        BY <2>4, HalfRangeFacts DEF Shift, ShiftWithin
      <3>2. mirrorTop - (d - (ack.top - mirrorTop)) = ack.top - d
        BY <1>1, <3>1
      <3> QED BY <1>1, <3>1, <3>2
    <2> QED BY <1>1, <2>2, <2>3, <2>4 DEF MirrorMatches, Join, WindowsMatchHistory, WindowMatches,
               AcksMatch
  <1>3. CASE ack.top < mirrorTop
    <2>1. /\ Jump(mirror.right, data.right) = Modulus - (mirrorTop - ack.top)
          /\ Jump(data.right, mirror.right) = mirrorTop - ack.top
      BY <1>1, <1>3, ReachJumps
    <2>2. ~(Jump(mirror.right, data.right) < HalfRange)
      BY <1>1, <1>3, <2>1, HalfRangeFacts, ModulusAssumption
    <2>3. mirror' = [mirror EXCEPT !.first = FALSE,
                        !.bits = @ \cup (ShiftWithin(data.bits, mirrorTop - ack.top,
                                                     data.words * WordBits) \cap Distances)]
      BY <1>1, <2>1, <2>2 DEF JoinWindowData
    <2>4. /\ mirror'.right = mirror.right
          /\ mirror'.bits = mirror.bits
                 \cup (ShiftWithin(data.bits, mirrorTop - ack.top, data.words * WordBits)
                         \cap Distances)
      BY <1>1, <2>3 DEF Windows
    <2>5. mirrorTop' = mirrorTop
      BY <1>1, <1>3 DEF Join
    <2>6. ASSUME NEW d \in ShiftWithin(data.bits, mirrorTop - ack.top, data.words * WordBits)
                            \cap Distances
          PROVE  mirrorTop - d \in accepted
      <3>1. d \in Nat /\ d - (mirrorTop - ack.top) \in data.bits
        BY <2>6, HalfRangeFacts DEF ShiftWithin, Distances
      <3>2. ack.top - (d - (mirrorTop - ack.top)) = mirrorTop - d
        BY <1>1, <3>1
      <3> QED BY <1>1, <3>1, <3>2
    <2> QED BY <1>1, <2>4, <2>5, <2>6 DEF MirrorMatches, Join, WindowsMatchHistory, WindowMatches,
               AcksMatch
  <1> QED BY <1>1, <1>2, <1>3

(* Every reachable pair of windows agrees with the history: the receiver's  *)
(* window exactly, reports and the sender's mirror without claiming more.   *)
THEOREM MatchesHistory == Spec => []WindowsMatchHistory
  <1>1. TypeOK /\ WindowsMatchHistory /\ [Next]_vars => WindowsMatchHistory'
    <2> SUFFICES ASSUME TypeOK, WindowsMatchHistory, [Next]_vars PROVE WindowsMatchHistory'
      OBVIOUS
    <2>1. ASSUME NEW n \in Arrivals, Apply(n) PROVE WindowsMatchHistory'
      BY <2>1, ApplyMatches
    <2>2. ASSUME NEW limit \in 1 .. WordCount, Report(limit) PROVE WindowsMatchHistory'
      BY <2>2, ReportMatches
    <2>3. ASSUME NEW ack \in acks, Join(ack) PROVE WindowsMatchHistory'
      BY <2>3, JoinMatches
    <2>4. ASSUME NEW ack \in acks, Lose(ack) PROVE WindowsMatchHistory'
      BY <2>4 DEF Lose, WindowsMatchHistory, WindowMatches, AcksMatch, MirrorMatches
    <2>5. CASE UNCHANGED vars
      BY <2>5 DEF vars, WindowsMatchHistory, WindowMatches, AcksMatch, MirrorMatches
    <2> QED BY <2>1, <2>2, <2>3, <2>4, <2>5 DEF Next
  <1> QED BY <1>1, InitMatches, TypeCorrect, PTL DEF Spec

-----------------------------------------------------------------------------
(* ApplyWindowCheck lets a number through at most once: a second arrival within *)
(* reach is turned away, because its bit is set or it is behind the window.     *)
THEOREM AtMostOnceCorrect == Spec => []AtMostOnce
  <1>1. TypeOK /\ WindowsMatchHistory => AtMostOnce
    <2> SUFFICES ASSUME TypeOK, WindowsMatchHistory, NEW n \in accepted, InReach(n)
                 PROVE  ~Accepts(window, Wrap(n))
      BY DEF AtMostOnce
    <2>1. WindowMatches /\ ~window.first /\ n \in Nat /\ n <= top /\ top \in Nat
      BY DEF TypeOK, WindowsMatchHistory, WindowMatches
    <2>2. Accepts(window, Wrap(n)) <=>
            n > top \/ (top - n \in 1 .. Size - 1 /\ top - n \notin window.bits)
      BY <2>1, AcceptsMeaning
    <2>3. top - n \in Distances => top - n \in window.bits
      BY <2>1 DEF WindowMatches
    <2> QED BY <2>1, <2>2, <2>3, HalfRangeFacts DEF Distances
  <1> QED BY <1>1, TypeCorrect, MatchesHistory, PTL

(* A number that was not let through and has not fallen out of the window is *)
(* let through.                                                              *)
THEOREM FreshAcceptedCorrect == Spec => []FreshAccepted
  <1>1. TypeOK /\ WindowsMatchHistory => FreshAccepted
    <2> SUFFICES ASSUME TypeOK, WindowsMatchHistory, NEW n \in Arrivals \ accepted,
                        InReach(n), n > top - Size
                 PROVE  Accepts(window, Wrap(n))
      BY DEF FreshAccepted
    <2>1. n \in Nat /\ top \in Nat /\ WindowMatches
      BY ArrivalsAssumption DEF TypeOK, WindowsMatchHistory
    <2>2. CASE window.first
      BY <2>2 DEF Accepts
    <2>3. CASE ~window.first
      <3>1. n # top
        BY <2>1, <2>3 DEF WindowMatches
      <3>2. top - n \in Distances => top - n \notin window.bits
        BY <2>1 DEF WindowMatches
      <3> QED BY <2>1, <2>3, <3>1, <3>2, AcceptsMeaning, HalfRangeFacts DEF Distances
    <2> QED BY <2>2, <2>3
  <1> QED BY <1>1, TypeCorrect, MatchesHistory, PTL

(* CheckValue on the sender's mirror is true only of numbers the receiver let through. *)
THEOREM AckSoundCorrect == Spec => []AckSound
  <1>1. TypeOK /\ WindowsMatchHistory => AckSound
    <2> SUFFICES ASSUME TypeOK, WindowsMatchHistory, NEW n \in Arrivals,
                        n - mirrorTop \in 1 - Size .. Modulus - Size,
                        CheckValue(mirror, Wrap(n))
                 PROVE  n \in accepted
      BY DEF AckSound
    <2>1. /\ n \in Nat /\ mirrorTop \in Nat /\ MirrorMatches
          /\ mirror.bits \subseteq Distances /\ mirror.right = Wrap(mirrorTop)
          /\ Jump(Wrap(n), mirror.right) \in mirror.bits
      BY ArrivalsAssumption DEF TypeOK, Windows, WindowsMatchHistory, MirrorMatches, CheckValue
    <2>2. CASE n <= mirrorTop
      <3>1. Jump(Wrap(n), mirror.right) = mirrorTop - n
        BY <2>1, <2>2, JumpWrap, WindowAssumption, ModulusAssumption
      <3> QED BY <2>1, <2>2, <3>1 DEF MirrorMatches
    <2>3. CASE n > mirrorTop
      <3>1. Jump(Wrap(n), mirror.right) = Modulus - (n - mirrorTop)
        BY <2>1, <2>3, JumpWrapBack, WindowAssumption, ModulusAssumption
      <3>2. Modulus - (n - mirrorTop) >= Size
        BY <2>1, <2>3, WindowAssumption, ModulusAssumption
      <3> QED BY <2>1, <3>1, <3>2, HalfRangeFacts DEF Distances
    <2> QED BY <2>1, <2>2, <2>3
  <1> QED BY <1>1, TypeCorrect, MatchesHistory, PTL
====
