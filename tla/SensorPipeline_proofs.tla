------------------------ MODULE SensorPipeline_proofs ------------------------
(***************************************************************************)
(* Proofs about the current sensor, for any currents among the levels, any *)
(* number of samples and any size of the ring buffer: the converter is set *)
(* up before it is sampled, a measurement is the current that flowed, the  *)
(* ring buffer holds the last measurements, oldest first, and what is      *)
(* reported is their mean.                                                 *)
(***************************************************************************)
EXTENDS SensorPipeline, SumTheorems, Sequences

-----------------------------------------------------------------------------
(* From the current to amperes.                                            *)

\* A level and its voltage, in steps of 3 A and of 100 mV.
LEMMA VoltageOfLevel ==
    ASSUME NEW l \in Levels
    PROVE  \E k \in 0 .. 16 :
              /\ l = 3 * k
              /\ Voltage(l) = 1650000 + k * 100000
              /\ Voltage(-l) = 1650000 - k * 100000
<1>1. l \in 0 .. 48 /\ l % 3 = 0
  BY LevelsAssumption
<1>2. l \div 3 \in 0 .. 16 /\ l = 3 * (l \div 3) /\ (-l) \div 3 = -(l \div 3)
  BY <1>1
<1> QED BY <1>2 DEF Voltage

\* What the configuration register says, field by field.
LEMMA Fields ==
    /\ (ConfigContinuous \div 2^9) % 8 = 1
    /\ (ConfigContinuous \div 2^12) % 8 = 4
    /\ (ConfigContinuous \div 2^8) % 2 = 0
<1>1. ConfigContinuous = 17123
  BY DEF ConfigContinuous
<1> QED BY <1>1

\* A word goes over the bus in two bytes and is put together again.
LEMMA BytesOfWord ==
    ASSUME NEW word \in Nat, word < 32768 PROVE WordOf(MsbFirst(word)) = word
<1>1. MsbFirst(word)[1] = word \div 256 /\ MsbFirst(word)[2] = word % 256
  <2>1. 2^8 = 256
    OBVIOUS
  <2>2. word \div 256 \in Nat /\ word \div 256 < 128
    OBVIOUS
  <2>3. (word \div 256) % 256 = word \div 256
    BY <2>2
  <2> QED BY <2>1, <2>3 DEF MsbFirst
<1>2. ((word \div 256) * 256) + (word % 256) = word
  OBVIOUS
<1>3. 2^8 = 256 /\ 2^15 = 32768
  OBVIOUS
<1> QED BY <1>1, <1>2, <1>3 DEF WordOf

\* A converter in the right mode and gain turns a level, in either direction,
\* into counts that become the same amperes again.
LEMMA AmpsOfLevel ==
    ASSUME adc_config = ConfigContinuous, NEW l \in Levels,
           NEW current \in {l, -l}
    PROVE  /\ l \in Nat
           /\ Amps(WordOf(MsbFirst(Converted(current)))) = current
<1>1. PICK k \in 0 .. 16 : /\ l = 3 * k
                           /\ Voltage(l) = 1650000 + k * 100000
                           /\ Voltage(-l) = 1650000 - k * 100000
  BY VoltageOfLevel
<1>2. PICK m \in -16 .. 16 : current = 3 * m /\ Voltage(current) = 1650000 + m * 100000
  <2>1. CASE current = l
    BY <1>1, <2>1
  <2>2. CASE current = -l
    <3>1. -k \in -16 .. 16 /\ current = 3 * (-k)
      BY <1>1, <2>2
    <3>2. Voltage(current) = 1650000 + (-k) * 100000
      BY <1>1, <2>2
    <3> QED BY <3>1, <3>2
  <2> QED BY <2>1, <2>2
<1>3. \A pga \in Nat : pga = 1 => LsbOf(pga) = 2000
  BY SMT DEF LsbOf
<1>4. (16 * Voltage(current)) \div 2000 = 13200 + 800 * m
  BY <1>2
<1>5. Converted(current) = 13200 + 800 * m
  BY <1>2, <1>3, <1>4, Fields DEF Converted
<1>6. 13200 + 800 * m \in Nat /\ 13200 + 800 * m < 32768
  OBVIOUS
<1>7. WordOf(MsbFirst(Converted(current))) = 13200 + 800 * m
  <2>1. Converted(current) \in Nat /\ Converted(current) < 32768
    BY <1>5, <1>6
  <2>2. WordOf(MsbFirst(Converted(current))) = Converted(current)
    BY <2>1, BytesOfWord
  <2> QED BY <1>5, <2>2
<1>8. Amps(13200 + 800 * m) = 3 * m
  <2>1. ((13200 + 800 * m) * 125 - 1650000) * 30 = 1000000 * (3 * m)
    OBVIOUS
  <2>2. (1000000 * (3 * m)) \div 1000000 = 3 * m
    OBVIOUS
  <2> QED BY <2>1, <2>2 DEF Amps
<1> QED BY <1>1, <1>2, <1>7, <1>8

\* The square of a number is in the order of the numbers.
LEMMA SquaresAreOrdered ==
    ASSUME NEW a \in Nat, NEW b \in Nat, a < b PROVE a * a < b * b
<1>1. a * a <= a * b
  OBVIOUS
<1>2. a * b < b * b
  OBVIOUS
<1> QED BY <1>1, <1>2

\* The root of the square of the current is the current.
LEMMA RootOfSquare == ASSUME NEW f \in Nat PROVE SquareRoot(f * f) = f
<1> DEFINE IsRoot(r) == r * r <= f * f /\ (r + 1) * (r + 1) > f * f
<1>1. f \in 0 .. f * f /\ IsRoot(f)
  <2>1. f * f \in Nat /\ f <= f * f
    <3>1. CASE f = 0
      BY <3>1
    <3>2. CASE f >= 1
      BY <3>2
    <3> QED BY <3>1, <3>2
  <2>2. (f + 1) * (f + 1) > f * f
    BY SquaresAreOrdered
  <2> QED BY <2>1, <2>2
<1>2. ASSUME NEW r \in 0 .. f * f, IsRoot(r) PROVE r = f
  <2>1. f * f \in Nat /\ r \in Nat
    OBVIOUS
  <2>2. ~(f < r)
    BY <1>2, <2>1, SquaresAreOrdered
  <2>3. ~(r + 1 < f) /\ r + 1 # f
    BY <1>2, <2>1, SquaresAreOrdered
  <2> QED BY <2>1, <2>2, <2>3
<1> HIDE DEF IsRoot
<1>3. (CHOOSE r \in 0 .. f * f : IsRoot(r)) = f
  BY <1>1, <1>2
<1> QED BY <1>3 DEF SquareRoot, IsRoot

-----------------------------------------------------------------------------
(* The invariant.                                                          *)

\* What init() has got so far.
SetupInStages ==
    /\ pc \in {"bus", "device", "configure", "verify", "failed", "delay", "burst"}
    /\ pc = "bus" => handles = {}
    /\ pc = "device" => handles = {"bus"}
    /\ pc \in {"configure", "verify", "delay", "burst"} => handles = {"bus", "dev"}
    /\ pc \in {"verify", "delay", "burst"} => adc_config = ConfigContinuous

\* What a burst has got so far: the square of the current as often as a sample
\* could be read.
SquaresOfTheFlow ==
    /\ flow \in Levels
    /\ pc = "burst" =>
          /\ sampled \in Nat /\ sampled <= TotalSamples
          /\ valid \in Nat /\ valid <= sampled
          /\ sum_of_squares = valid * (flow * flow)

\* The ring buffer.
BufferTypes ==
    /\ window_index \in Nat /\ window_index < SmoothingWindow
    /\ smoothing_window \in [0 .. SmoothingWindow - 1 -> Nat]

SensorInv == SetupInStages /\ SquaresOfTheFlow /\ BufferTypes

\* Currents are natural numbers.
LEMMA LevelsAreNat == \A l \in Levels : l \in Nat
  BY LevelsAssumption

\* The invariant holds after power-up.
LEMMA InitSensorInv == Init => SensorInv
<1> SUFFICES ASSUME Init PROVE SensorInv
  OBVIOUS
<1>1. SetupInStages /\ SquaresOfTheFlow
  BY DEF Init, SetupInStages, SquaresOfTheFlow
<1>2. BufferTypes
  BY SmoothingWindowAssumption DEF Init, BufferTypes
<1> QED BY <1>1, <1>2 DEF SensorInv

\* One sample: an amount read is the current that flows, or its opposite.
LEMMA SampleKeepsSensor == ASSUME SensorInv, Sample PROVE SensorInv'
<1>1. /\ pc = "burst" /\ sampled < TotalSamples /\ sampled' = sampled + 1
      /\ UNCHANGED <<flow, pc, handles, adc_config, smoothing_window, window_index>>
  BY DEF Sample, i2cVars, bufferVars
<1>2. /\ sampled \in Nat /\ valid \in Nat /\ valid <= sampled /\ flow \in Levels
      /\ sum_of_squares = valid * (flow * flow)
      /\ adc_config = ConfigContinuous
  BY <1>1 DEF SensorInv, SetupInStages, SquaresOfTheFlow
<1>3. TotalSamples \in Nat /\ flow \in Nat
  BY <1>2, TotalSamplesAssumption, LevelsAreNat
<1>4. valid' \in Nat /\ valid' <= sampled' /\ sum_of_squares' = valid' * (flow * flow)
  <2>1. CASE UNCHANGED <<valid, sum_of_squares>>
    BY <1>1, <1>2, <2>1
  <2>2. CASE \E current \in {flow, -flow} :
                LET amps == Amps(WordOf(MsbFirst(Converted(current))))
                IN  valid' = valid + 1 /\ sum_of_squares' = sum_of_squares + amps * amps
    <3>1. PICK current \in {flow, -flow} :
             LET amps == Amps(WordOf(MsbFirst(Converted(current))))
             IN  valid' = valid + 1 /\ sum_of_squares' = sum_of_squares + amps * amps
      BY <2>2
    <3>2. Amps(WordOf(MsbFirst(Converted(current)))) = current
      BY <1>2, AmpsOfLevel
    <3>3. current * current = flow * flow
      BY <1>3
    <3>4. valid' = valid + 1 /\ sum_of_squares' = sum_of_squares + (flow * flow)
      BY <3>1, <3>2, <3>3
    <3>5. flow * flow \in Nat
      BY <1>3
    <3>6. (valid + 1) * (flow * flow) = (valid * (flow * flow)) + (flow * flow)
      BY <1>2, <3>5
    <3> QED BY <1>1, <1>2, <3>4, <3>6
  <2> QED BY <2>1, <2>2 DEF Sample
<1>5. SquaresOfTheFlow'
  BY <1>1, <1>2, <1>3, <1>4, TotalSamplesAssumption DEF SquaresOfTheFlow, TotalSamples
<1>6. SetupInStages' /\ BufferTypes'
  BY <1>1 DEF SensorInv, SetupInStages, BufferTypes, ConfigContinuous
<1> QED BY <1>5, <1>6 DEF SensorInv

\* What is put into the ring buffer is the current that flowed.
LEMMA MeasurementIsTheFlow ==
    ASSUME SensorInv, BurstSucceeds
    PROVE  /\ flow \in Nat /\ Rms = flow
           /\ smoothing_window' = [smoothing_window EXCEPT ![window_index] = flow]
           /\ window_index' = (window_index + 1) % SmoothingWindow
           /\ UNCHANGED <<flow, handles, adc_config>> /\ pc' = "delay"
<1>1. /\ pc = "burst" /\ sampled = TotalSamples /\ valid >= MinValid
      /\ smoothing_window' = [smoothing_window EXCEPT ![window_index] = Rms]
      /\ window_index' = (window_index + 1) % SmoothingWindow
      /\ UNCHANGED <<flow, handles, adc_config>> /\ pc' = "delay"
  BY DEF BurstSucceeds, BurstDone, i2cVars
<1>2. /\ valid \in Nat /\ flow \in Nat /\ sum_of_squares = valid * (flow * flow)
  BY <1>1, LevelsAreNat DEF SensorInv, SquaresOfTheFlow
<1>3. valid # 0
  <2>1. TotalSamples \in Nat /\ TotalSamples >= 2
    BY TotalSamplesAssumption
  <2>2. ASSUME NEW n \in Nat, n >= 2
        PROVE  (n * 3) \div 4 \in Nat /\ (n * 3) \div 4 >= 1
    BY <2>2
  <2>3. (TotalSamples * 3) \div 4 \in Nat /\ (TotalSamples * 3) \div 4 >= 1
    BY <2>1, <2>2
  <2>4. MinValid \in Nat /\ MinValid >= 1
    BY <2>3 DEF MinValid
  <2> QED BY <1>1, <1>2, <2>4
<1>4. sum_of_squares \div valid = flow * flow
  <2>1. ASSUME NEW n \in Nat, n # 0, NEW a \in Nat PROVE (n * a) \div n = a
    BY <2>1
  <2>2. flow * flow \in Nat
    BY <1>2
  <2> QED BY <1>2, <1>3, <2>1, <2>2
<1>5. Rms = flow
  BY <1>2, <1>4, RootOfSquare DEF Rms
<1> QED BY <1>1, <1>2, <1>5

\* The index stays inside the buffer.
LEMMA IndexMovesOn ==
    ASSUME BufferTypes
    PROVE  /\ (window_index + 1) % SmoothingWindow \in Nat
           /\ (window_index + 1) % SmoothingWindow < SmoothingWindow
  BY SmoothingWindowAssumption DEF BufferTypes

\* Every step keeps the invariant.
LEMMA NextKeepsSensor == ASSUME SensorInv, [Next]_vars PROVE SensorInv'
<1>1. CASE UNCHANGED vars
  BY <1>1 DEF vars, i2cVars, burstVars, bufferVars, SensorInv, SetupInStages,
              SquaresOfTheFlow, BufferTypes, ConfigContinuous, TotalSamples
<1>2. CASE LoadChanges
  BY <1>2 DEF LoadChanges, i2cVars, burstVars, bufferVars, SensorInv, SetupInStages,
              SquaresOfTheFlow, BufferTypes, ConfigContinuous, TotalSamples
<1>3. CASE InitSensor
  <2>1. pc' # "burst" /\ UNCHANGED <<flow, smoothing_window, window_index>>
    BY <1>3 DEF InitSensor, NewBus, AddDevice, Configure, Verify, bufferVars
  <2>2. SquaresOfTheFlow' /\ BufferTypes'
    BY <2>1 DEF SensorInv, SquaresOfTheFlow, BufferTypes
  <2>3. SetupInStages'
    <3>1. ConfigContinuous' = ConfigContinuous
      BY DEF ConfigContinuous
    <3>2. CASE NewBus
      BY <3>1, <3>2 DEF NewBus, SensorInv, SetupInStages
    <3>3. CASE AddDevice
      BY <3>1, <3>3 DEF AddDevice, SensorInv, SetupInStages
    <3>4. CASE Configure
      BY <3>1, <3>4 DEF Configure, SensorInv, SetupInStages
    <3>5. CASE Verify
      BY <3>1, <3>5 DEF Verify, SensorInv, SetupInStages, i2cVars
    <3> QED BY <1>3, <3>2, <3>3, <3>4, <3>5 DEF InitSensor
  <2> QED BY <2>2, <2>3 DEF SensorInv
<1>4. CASE BurstStart
  <2>1. /\ pc = "delay" /\ pc' = "burst" /\ sampled' = 0 /\ valid' = 0
        /\ sum_of_squares' = 0
        /\ UNCHANGED <<flow, handles, adc_config, smoothing_window, window_index>>
    BY <1>4 DEF BurstStart, i2cVars, bufferVars
  <2>2. flow' \in Levels /\ flow' * flow' \in Nat
    BY <2>1, LevelsAreNat DEF SensorInv, SquaresOfTheFlow
  <2>3. TotalSamples \in Nat /\ TotalSamples' = TotalSamples
    BY TotalSamplesAssumption DEF TotalSamples
  <2>4. SquaresOfTheFlow'
    BY <2>1, <2>2, <2>3 DEF SquaresOfTheFlow
  <2>5. SetupInStages' /\ BufferTypes'
    BY <2>1 DEF SensorInv, SetupInStages, BufferTypes, ConfigContinuous
  <2> QED BY <2>4, <2>5 DEF SensorInv
<1>5. CASE Sample
  BY <1>5, SampleKeepsSensor
<1>6. CASE BurstFails
  BY <1>6 DEF BurstFails, BurstDone, i2cVars, burstVars, bufferVars, SensorInv,
              SetupInStages, SquaresOfTheFlow, BufferTypes, ConfigContinuous
<1>7. CASE BurstSucceeds
  <2>1. pc = "burst"
    BY <1>7 DEF BurstSucceeds, BurstDone
  <2>2. /\ flow \in Nat /\ UNCHANGED <<flow, handles, adc_config>> /\ pc' = "delay"
        /\ smoothing_window' = [smoothing_window EXCEPT ![window_index] = flow]
        /\ window_index' = (window_index + 1) % SmoothingWindow
    BY <1>7, MeasurementIsTheFlow
  <2>3. BufferTypes'
    BY <2>2, IndexMovesOn DEF SensorInv, BufferTypes
  <2> QED BY <2>1, <2>2, <2>3 DEF SensorInv, SetupInStages, SquaresOfTheFlow,
                                  ConfigContinuous
<1> QED BY <1>1, <1>2, <1>3, <1>4, <1>5, <1>6, <1>7 DEF Next, ReadSmoothedAmps

\* The strengthened invariant of the sensor holds in every state.
THEOREM SensorInvariant == Spec => []SensorInv
<1>1. SensorInv /\ [Next]_vars => SensorInv'
  BY NextKeepsSensor
<1> QED BY InitSensorInv, <1>1, PTL DEF Spec

\* Readings come only from a bus, a device and a converter that are set up.
THEOREM SamplesOnlyWhatIsConfiguredHolds == Spec => []SamplesOnlyWhatIsConfigured
<1>1. SensorInv => SamplesOnlyWhatIsConfigured
  BY DEF SensorInv, SetupInStages, SamplesOnlyWhatIsConfigured
<1> QED BY <1>1, SensorInvariant, PTL

-----------------------------------------------------------------------------
(* The ring buffer is a queue.                                             *)

\* The values in the buffer, oldest first: last of RollingMean.
OldestFirst == [k \in 1 .. SmoothingWindow |->
                   smoothing_window[(window_index + k - 1) % SmoothingWindow]]

\* Going round the buffer.
LEMMA Around ==
    ASSUME NEW w \in Nat \ {0}, NEW x \in Nat, x < 2 * w
    PROVE  x % w = IF x < w THEN x ELSE x - w
<1>1. CASE x < w
  BY <1>1
<1>2. CASE x >= w
  BY <1>2
<1> QED BY <1>1, <1>2

\* After a measurement the places, oldest first, are the places from the second
\* oldest on, and then the place that was written.
LEMMA PlacesMoveOn ==
    ASSUME NEW w \in Nat \ {0}, NEW i \in Nat, i < w, NEW k \in Nat \ {0}, k <= w
    PROVE  LET next == (i + 1) % w
           IN  /\ k < w => /\ (next + k - 1) % w = (i + k) % w
                           /\ (i + k) % w # i
               /\ (next + w - 1) % w = i
               /\ (i + k - 1) % w \in Nat /\ (i + k - 1) % w < w
<1> DEFINE next == (i + 1) % w
           a == i + k
           b == i + k - 1
<1>1. next = IF i + 1 < w THEN i + 1 ELSE 0
  BY Around
<1>2. next \in Nat /\ next < w
  BY <1>1
<1>3. a \in Nat /\ a < 2 * w /\ b \in Nat /\ b < 2 * w
  OBVIOUS
<1> HIDE DEF next, a, b
<1>4. a % w = IF a < w THEN a ELSE a - w
  BY <1>3, Around
<1>5. b % w = IF b < w THEN b ELSE b - w
  BY <1>3, Around
<1> DEFINE c == next + k - 1
           d == next + w - 1
<1>6. c \in Nat /\ c < 2 * w /\ d \in Nat /\ d < 2 * w
  BY <1>2
<1> HIDE DEF c, d
<1>7. c % w = IF c < w THEN c ELSE c - w
  BY <1>6, Around
<1>8. d % w = IF d < w THEN d ELSE d - w
  BY <1>6, Around
<1>9. k < w => c % w = a % w /\ a % w # i
  <2>1. k < w => LET y == IF a < w THEN a ELSE a - w
                 IN  (IF c < w THEN c ELSE c - w) = y /\ y # i
    BY <1>1, <1>2 DEF a, c
  <2> QED BY <1>4, <1>7, <2>1
<1>10. d % w = i
  <2>1. (IF d < w THEN d ELSE d - w) = i
    BY <1>1, <1>2 DEF d
  <2> QED BY <1>8, <2>1
<1>11. b % w \in Nat /\ b % w < w
  <2>1. LET y == IF b < w THEN b ELSE b - w IN y \in Nat /\ y < w
    BY <1>3
  <2> QED BY <1>5, <2>1
<1>12. /\ k < w => /\ (next + k - 1) % w = (i + k) % w
                   /\ (i + k) % w # i
       /\ (next + w - 1) % w = i
       /\ (i + k - 1) % w \in Nat /\ (i + k - 1) % w < w
  BY <1>9, <1>10, <1>11 DEF a, b, c, d
<1> QED BY <1>12 DEF next

\* A successful burst moves the queue on by one place.
LEMMA WriteMovesOn ==
    ASSUME SensorInv, BurstSucceeds
    PROVE  /\ OldestFirst \in Seq(Nat) /\ Len(OldestFirst) = SmoothingWindow
           /\ OldestFirst' = [k \in 1 .. SmoothingWindow |->
                                 IF k < SmoothingWindow THEN OldestFirst[k + 1] ELSE flow]
<1> DEFINE w == SmoothingWindow
           i == window_index
           q == OldestFirst
<1>1. /\ flow \in Nat
      /\ smoothing_window' = [smoothing_window EXCEPT ![i] = flow]
      /\ window_index' = (i + 1) % w
  BY MeasurementIsTheFlow
<1>2. /\ w \in Nat \ {0} /\ i \in Nat /\ i < w
      /\ smoothing_window \in [0 .. w - 1 -> Nat]
  BY SmoothingWindowAssumption DEF SensorInv, BufferTypes
<1>3. ASSUME NEW k \in 1 .. w
      PROVE  /\ (i + k - 1) % w \in 0 .. w - 1
             /\ k < w => /\ (window_index' + k - 1) % w = (i + k) % w
                         /\ (i + k) % w # i
             /\ (window_index' + w - 1) % w = i
  <2>1. k \in Nat \ {0} /\ k <= w
    BY <1>2
  <2> HIDE DEF w, i
  <2>2. LET next == (i + 1) % w
        IN  /\ k < w => /\ (next + k - 1) % w = (i + k) % w
                        /\ (i + k) % w # i
            /\ (next + w - 1) % w = i
            /\ (i + k - 1) % w \in Nat /\ (i + k - 1) % w < w
    BY <1>2, <2>1, PlacesMoveOn
  <2>3. (i + k - 1) % w \in 0 .. w - 1
    BY <1>2, <2>2
  <2> QED BY <1>1, <2>2, <2>3
<1>4. q \in Seq(Nat) /\ Len(q) = w
      /\ \A k \in 1 .. w : q[k] = smoothing_window[(i + k - 1) % w]
  <2>1. q = [k \in 1 .. w |-> smoothing_window[(i + k - 1) % w]]
    BY DEF OldestFirst
  <2>2. \A k \in 1 .. w : smoothing_window[(i + k - 1) % w] \in Nat
    BY <1>2, <1>3
  <2> HIDE DEF q, w, i
  <2>3. q \in [1 .. w -> Nat]
    BY <2>1, <2>2
  <2> QED BY <1>2, <2>1, <2>3
<1>5. OldestFirst' = [k \in 1 .. w |-> smoothing_window'[(window_index' + k - 1) % w]]
  BY DEF OldestFirst
<1> HIDE DEF q, w, i
<1>6. ASSUME NEW k \in 1 .. w
      PROVE  smoothing_window'[(window_index' + k - 1) % w] =
                 IF k < w THEN q[k + 1] ELSE flow
  <2>1. CASE k < w
    <3>1. k + 1 \in 1 .. w /\ i + (k + 1) - 1 = i + k
      BY <1>2, <2>1
    <3>2. (i + k) % w \in 0 .. w - 1
      BY <1>3, <3>1
    <3>3. smoothing_window'[(i + k) % w] = smoothing_window[(i + k) % w]
      BY <1>1, <1>2, <1>3, <2>1, <3>2
    <3>4. q[k + 1] = smoothing_window[(i + k) % w]
      BY <1>4, <3>1
    <3> QED BY <1>3, <2>1, <3>3, <3>4
  <2>2. CASE k = w
    <3>1. smoothing_window'[i] = flow
      BY <1>1, <1>2
    <3> QED BY <1>3, <2>2, <3>1
  <2> QED BY <1>2, <2>1, <2>2
<1>7. OldestFirst' = [k \in 1 .. w |-> IF k < w THEN q[k + 1] ELSE flow]
  BY <1>5, <1>6
<1> QED BY <1>4, <1>7 DEF q, w

\* A new value goes to the end of the queue and the oldest leaves it.
LEMMA WriteIsEnqueue ==
    ASSUME SensorInv, BurstSucceeds
    PROVE  OldestFirst' = Append(Tail(OldestFirst), flow)
<1> DEFINE w == SmoothingWindow
           q == OldestFirst
<1>1. q \in Seq(Nat) /\ Len(q) = w /\ flow \in Nat /\ w \in Nat \ {0}
  BY WriteMovesOn, MeasurementIsTheFlow, SmoothingWindowAssumption
<1>2. OldestFirst' = [k \in 1 .. w |-> IF k < w THEN q[k + 1] ELSE flow]
  BY WriteMovesOn
<1> HIDE DEF q, w
<1>3. /\ Append(Tail(q), flow) \in Seq(Nat)
      /\ Len(Append(Tail(q), flow)) = w
      /\ \A k \in 1 .. w : Append(Tail(q), flow)[k] = IF k < w THEN q[k + 1] ELSE flow
  <2>1. q # <<>>
    BY <1>1
  <2>2. /\ Tail(q) \in Seq(Nat) /\ Len(Tail(q)) = w - 1
        /\ \A k \in 1 .. w - 1 : Tail(q)[k] = q[k + 1]
    BY <1>1, <2>1
  <2> QED BY <1>1, <2>2
<1>4. Append(Tail(q), flow) = [k \in 1 .. w |-> IF k < w THEN q[k + 1] ELSE flow]
  <2>1. \A s \in Seq(Nat) : s = [k \in 1 .. Len(s) |-> s[k]]
    OBVIOUS
  <2>2. Append(Tail(q), flow) = [k \in 1 .. w |-> Append(Tail(q), flow)[k]]
    BY <1>3, <2>1
  <2> QED BY <1>3, <2>2
<1> QED BY <1>2, <1>4 DEF q

\* All steps but a successful burst leave the queue as it is, and that one adds
\* the current that flowed: what the reported mean is taken over is a queue of
\* the last measurements, the first half of RollingMean's Measure, however many
\* samples a burst takes and however many of them are lost.
THEOREM BufferIsAQueue ==
    Spec => [][\/ OldestFirst' = OldestFirst
               \/ OldestFirst' = Append(Tail(OldestFirst), flow) /\ flow' = flow]_vars
<1>1. ASSUME SensorInv, [Next]_vars
      PROVE  \/ OldestFirst' = OldestFirst
             \/ OldestFirst' = Append(Tail(OldestFirst), flow) /\ flow' = flow
  <2>1. CASE BurstSucceeds
    BY <1>1, <2>1, WriteIsEnqueue, MeasurementIsTheFlow
  <2>2. CASE ~BurstSucceeds
    <3>1. UNCHANGED <<smoothing_window, window_index>>
      BY <1>1, <2>2 DEF Next, LoadChanges, InitSensor, NewBus, AddDevice, Configure,
                        Verify, ReadSmoothedAmps, BurstStart, Sample, BurstFails,
                        bufferVars, vars
    <3> QED BY <3>1 DEF OldestFirst
  <2> QED BY <2>1, <2>2
<1> QED BY <1>1, SensorInvariant, PTL DEF Spec
-----------------------------------------------------------------------------
(* Types and the sum behind a reading.                                     *)

\* The counters of a burst, which keep what the last burst left in them.
BurstRanges ==
    /\ sampled \in Nat /\ sampled <= TotalSamples
    /\ valid \in Nat /\ valid <= sampled
    /\ sum_of_squares \in Nat /\ sum_of_squares <= valid * (Highest * Highest)

\* What init() deals with.
SetupRanges ==
    /\ handles \subseteq {"bus", "dev"}
    /\ adc_config \in {PowerUpConfig, ConfigContinuous}

\* The ring buffer holds no more than a current can be.
BufferRanges == smoothing_window \in [0 .. SmoothingWindow - 1 -> 0 .. Highest]

\* The last value returned is the mean of the ring buffer as it is.
ReadingIsTheSum == reading = SumFunction(smoothing_window)

RangeInv == BurstRanges /\ SetupRanges /\ BufferRanges /\ ReadingIsTheSum

\* There is a highest current.
LEMMA HighestIsALevel ==
    ASSUME flow \in Levels
    PROVE  /\ Highest \in Nat
           /\ \A l \in Levels : l <= Highest
<1> DEFINE rooms == {48 - l : l \in Levels}
<1>1. rooms \subseteq Nat /\ rooms # {}
  BY LevelsAssumption
<1> HIDE DEF rooms
<1>2. PICK n \in rooms : \A m \in rooms : n <= m
  BY <1>1, LeastNumber
<1>3. PICK h \in Levels : n = 48 - h
  BY <1>2 DEF rooms
<1>4. \A l \in Levels : 48 - l \in rooms
  BY DEF rooms
<1>5. \A l \in Levels : l <= h
  BY <1>2, <1>3, <1>4, LevelsAreNat
<1>6. Highest \in Levels /\ \A l \in Levels : l <= Highest
  BY <1>5, Zenon DEF Highest
<1> QED BY <1>6, LevelsAreNat

\* The indices of the ring buffer.
LEMMA Indices ==
    /\ IsFiniteSet(0 .. SmoothingWindow - 1)
    /\ Cardinality(0 .. SmoothingWindow - 1) = SmoothingWindow
<1>1. SmoothingWindow \in Nat \ {0}
  BY SmoothingWindowAssumption
<1> QED BY <1>1, FS_Interval

\* A full ring buffer sums up to no more than the window times the highest current.
LEMMA ReadingIsBounded ==
    ASSUME BufferRanges, ReadingIsTheSum, flow \in Levels
    PROVE  reading \in Nat /\ reading <= SmoothingWindow * Highest
<1> DEFINE I == 0 .. SmoothingWindow - 1
<1>1. Highest \in Nat
  BY HighestIsALevel
<1>2. \A i \in I : smoothing_window[i] \in Nat /\ smoothing_window[i] <= Highest
  BY <1>1 DEF BufferRanges
<1>3. reading = SumFunctionOnSet(smoothing_window, I)
  BY DEF ReadingIsTheSum, SumFunction, BufferRanges
<1>4. IsFiniteSet(I) /\ Cardinality(I) = SmoothingWindow
  BY Indices
<1> HIDE DEF I
<1> QED BY <1>1, <1>2, <1>3, <1>4, SumIsNat, SumIsBounded

\* The ranges, with the stages of the setup, are the type invariant.
LEMMA RangesAreTypes == ASSUME SensorInv, RangeInv PROVE TypeOK
<1>1. flow \in Levels
  BY DEF SensorInv, SquaresOfTheFlow
<1>2. Highest \in Nat /\ TotalSamples \in Nat
  BY <1>1, HighestIsALevel, TotalSamplesAssumption
<1>3. adc_config \in 0 .. 2^16 - 1
  <2>1. PowerUpConfig = 34179 /\ ConfigContinuous = 17123 /\ 2^16 = 65536
    BY DEF PowerUpConfig, ConfigContinuous
  <2> QED BY <2>1 DEF RangeInv, SetupRanges
<1>4. sampled \in 0 .. TotalSamples /\ valid \in 0 .. sampled
  BY <1>2 DEF RangeInv, BurstRanges
<1>5. sum_of_squares \in 0 .. TotalSamples * Highest * Highest
  <2> DEFINE a == Highest * Highest
             n == TotalSamples
  <2>1. a \in Nat /\ TotalSamples * Highest * Highest = n * a
    BY <1>2
  <2>2. n \in Nat /\ valid \in Nat /\ valid <= n
    BY <1>2, <1>4
  <2>3. sum_of_squares \in Nat /\ sum_of_squares <= valid * a
    BY DEF RangeInv, BurstRanges
  <2> HIDE DEF a, n
  <2>4. valid * a <= n * a /\ valid * a \in Nat /\ n * a \in Nat
    BY <2>1, <2>2
  <2>5. sum_of_squares <= n * a
    BY <2>3, <2>4
  <2> QED BY <2>1, <2>3, <2>4, <2>5
<1>6. window_index \in 0 .. SmoothingWindow - 1
  BY SmoothingWindowAssumption DEF SensorInv, BufferTypes
<1>7. reading \in 0 .. SmoothingWindow * Highest
  <2>1. reading \in Nat /\ reading <= SmoothingWindow * Highest
    BY <1>1, ReadingIsBounded DEF RangeInv
  <2>2. SmoothingWindow * Highest \in Nat
    BY <1>2, SmoothingWindowAssumption
  <2> QED BY <2>1, <2>2
<1> QED BY <1>1, <1>3, <1>4, <1>5, <1>6, <1>7
        DEF TypeOK, SensorInv, SetupInStages, RangeInv, SetupRanges, BufferRanges
\* After power-up the buffer and its mean are zero.
LEMMA InitRanges == ASSUME Init PROVE RangeInv
<1>1. flow \in Levels /\ Highest \in Nat /\ TotalSamples \in Nat
  BY HighestIsALevel, TotalSamplesAssumption DEF Init
<1>2. BurstRanges
  <2>1. sampled = 0 /\ valid = 0 /\ sum_of_squares = 0
    BY DEF Init
  <2>2. Highest * Highest \in Nat
    BY <1>1
  <2> QED BY <1>1, <2>1, <2>2 DEF BurstRanges
<1>3. SetupRanges
  BY DEF Init, SetupRanges
<1>4. BufferRanges
  BY <1>1 DEF Init, BufferRanges
<1>5. ReadingIsTheSum
  <2> DEFINE I == 0 .. SmoothingWindow - 1
  <2>1. \A i \in I : smoothing_window[i] \in Nat /\ smoothing_window[i] <= 0
    BY DEF Init
  <2>2. reading = 0 /\ SumFunction(smoothing_window) = SumFunctionOnSet(smoothing_window, I)
    BY DEF Init, SumFunction
  <2>3. IsFiniteSet(I) /\ Cardinality(I) * 0 = 0
    BY Indices, SmoothingWindowAssumption
  <2> HIDE DEF I
  <2>4. /\ SumFunctionOnSet(smoothing_window, I) \in Nat
        /\ SumFunctionOnSet(smoothing_window, I) <= Cardinality(I) * 0
    BY <2>1, <2>3, SumIsNat, SumIsBounded
  <2> QED BY <2>2, <2>3, <2>4 DEF ReadingIsTheSum
<1> QED BY <1>2, <1>3, <1>4, <1>5 DEF RangeInv

\* The highest current is a constant.
LEMMA ConstantsStay ==
    /\ Highest' = Highest /\ TotalSamples' = TotalSamples
    /\ PowerUpConfig' = PowerUpConfig /\ ConfigContinuous' = ConfigContinuous
BY DEF Highest, TotalSamples, PowerUpConfig, ConfigContinuous

\* A sample adds at most the square of the highest current.
LEMMA SampleKeepsBurstRanges ==
    ASSUME SensorInv, BurstRanges, Sample PROVE BurstRanges'
<1>1. /\ pc = "burst" /\ sampled < TotalSamples /\ sampled' = sampled + 1
      /\ flow \in Levels /\ adc_config = ConfigContinuous
  BY DEF Sample, SensorInv, SetupInStages, SquaresOfTheFlow
<1> DEFINE top == Highest * Highest
           got == flow * flow
<1>2. Highest \in Nat /\ TotalSamples \in Nat /\ flow \in Nat /\ flow <= Highest
  BY <1>1, HighestIsALevel, TotalSamplesAssumption, LevelsAreNat
<1>3. top \in Nat /\ got \in Nat /\ got <= top
  <2>1. flow * flow <= flow * Highest /\ flow * Highest <= Highest * Highest
    BY <1>2
  <2> QED BY <1>2, <2>1
<1>4. /\ sampled \in Nat /\ valid \in Nat /\ valid <= sampled
      /\ sum_of_squares \in Nat /\ sum_of_squares <= valid * top
  BY DEF BurstRanges
<1>5. CASE UNCHANGED <<valid, sum_of_squares>>
  BY <1>1, <1>2, <1>4, <1>5, ConstantsStay DEF BurstRanges
<1>6. CASE \E current \in {flow, -flow} :
              LET amps == Amps(WordOf(MsbFirst(Converted(current))))
              IN  valid' = valid + 1 /\ sum_of_squares' = sum_of_squares + amps * amps
  <2>1. PICK current \in {flow, -flow} :
           LET amps == Amps(WordOf(MsbFirst(Converted(current))))
           IN  valid' = valid + 1 /\ sum_of_squares' = sum_of_squares + amps * amps
    BY <1>6
  <2>2. Amps(WordOf(MsbFirst(Converted(current)))) = current
    BY <1>1, AmpsOfLevel
  <2>3. current * current = got
    BY <1>2
  <2>4. valid' = valid + 1 /\ sum_of_squares' = sum_of_squares + got
    BY <2>1, <2>2, <2>3
  <2> HIDE DEF top, got
  <2>5. (valid + 1) * top = (valid * top) + top /\ valid * top \in Nat
    BY <1>3, <1>4
  <2>6. sum_of_squares' \in Nat /\ sum_of_squares' <= valid' * top
    BY <1>3, <1>4, <2>4, <2>5
  <2>7. sampled' \in Nat /\ sampled' <= TotalSamples /\ valid' \in Nat /\ valid' <= sampled'
    BY <1>1, <1>2, <1>4, <2>4
  <2> QED BY <2>6, <2>7, ConstantsStay DEF BurstRanges, top
<1> QED BY <1>5, <1>6 DEF Sample

\* Every step keeps the ranges, and a reading is the sum of the buffer after it.
LEMMA NextKeepsRanges ==
    ASSUME SensorInv, RangeInv, [Next]_vars PROVE RangeInv'
<1>1. flow \in Levels /\ Highest \in Nat /\ TotalSamples \in Nat
  BY HighestIsALevel, TotalSamplesAssumption DEF SensorInv, SquaresOfTheFlow
<1>2. BurstRanges'
  <2>1. CASE Sample
    BY <2>1, SampleKeepsBurstRanges DEF RangeInv
  <2>2. CASE BurstStart
    <3>1. sampled' = 0 /\ valid' = 0 /\ sum_of_squares' = 0
      BY <2>2 DEF BurstStart
    <3>2. Highest * Highest \in Nat
      BY <1>1
    <3> QED BY <1>1, <3>1, <3>2, ConstantsStay DEF BurstRanges
  <2>3. CASE ~Sample /\ ~BurstStart
    <3>1. UNCHANGED <<sampled, valid, sum_of_squares>>
      BY <2>3 DEF Next, LoadChanges, InitSensor, NewBus, AddDevice, Configure, Verify,
                  ReadSmoothedAmps, BurstFails, BurstSucceeds, burstVars, vars
    <3> QED BY <3>1, ConstantsStay DEF RangeInv, BurstRanges
  <2> QED BY <2>1, <2>2, <2>3
<1>3. SetupRanges'
  <2>1. CASE InitSensor
    BY <2>1, ConstantsStay DEF InitSensor, NewBus, AddDevice, Configure, Verify, i2cVars,
                               RangeInv, SetupRanges
  <2>2. CASE ~InitSensor
    <3>1. UNCHANGED <<handles, adc_config>>
      BY <2>2 DEF Next, LoadChanges, ReadSmoothedAmps, BurstStart, Sample, BurstFails,
                  BurstSucceeds, i2cVars, vars
    <3> QED BY <3>1, ConstantsStay DEF RangeInv, SetupRanges
  <2> QED BY <2>1, <2>2
<1>4. BufferRanges' /\ ReadingIsTheSum'
  <2>1. CASE BurstSucceeds
    <3>1. smoothing_window' = [smoothing_window EXCEPT ![window_index] = flow]
      BY <2>1, MeasurementIsTheFlow
    <3>2. flow \in 0 .. Highest
      BY <1>1, HighestIsALevel, LevelsAreNat
    <3>3. BufferRanges'
      BY <3>1, <3>2, ConstantsStay DEF RangeInv, BufferRanges
    <3> QED BY <2>1, <3>3 DEF BurstSucceeds, ReadingIsTheSum
  <2>2. CASE BurstFails
    BY <2>2, ConstantsStay DEF BurstFails, bufferVars, RangeInv, BufferRanges,
                               ReadingIsTheSum
  <2>3. CASE ~BurstSucceeds /\ ~BurstFails
    <3>1. UNCHANGED <<smoothing_window, reading>>
      BY <2>3 DEF Next, LoadChanges, InitSensor, NewBus, AddDevice, Configure, Verify,
                  ReadSmoothedAmps, BurstStart, Sample, bufferVars, vars
    <3> QED BY <3>1, ConstantsStay DEF RangeInv, BufferRanges, ReadingIsTheSum
  <2> QED BY <2>1, <2>2, <2>3
<1> QED BY <1>2, <1>3, <1>4 DEF RangeInv

\* The counters, the converter's register, the ring buffer and the last value
\* returned stay in their ranges: read_smoothed_amps() never returns more than the
\* highest current, whatever was read before and whatever failed.
THEOREM TypeCorrect == Spec => []TypeOK
<1>1. Init => SensorInv /\ RangeInv
  BY InitSensorInv, InitRanges
<1>2. (SensorInv /\ RangeInv) /\ [Next]_vars => (SensorInv /\ RangeInv)'
  BY NextKeepsSensor, NextKeepsRanges
<1>3. SensorInv /\ RangeInv => TypeOK
  BY RangesAreTypes
<1> QED BY <1>1, <1>2, <1>3, PTL DEF Spec

-----------------------------------------------------------------------------
(* The rolling mean.                                                       *)

\* The sum of the ring buffer is the sum of the queue it holds, wherever the queue
\* starts.
LEMMA SumOfTheQueue ==
    ASSUME NEW i \in Nat, i < SmoothingWindow,
           NEW buffer \in [0 .. SmoothingWindow - 1 -> Nat]
    PROVE  SumFunction(buffer) =
               SumFunction([k \in 1 .. SmoothingWindow |->
                               buffer[(i + k - 1) % SmoothingWindow]])
<1> DEFINE w == SmoothingWindow
           queue == [k \in 1 .. w |-> buffer[(i + k - 1) % w]]
           h == [k \in 1 .. w |-> (i + k - 1) % w]
<1>1. w \in Nat \ {0} /\ i < w /\ buffer \in [0 .. w - 1 -> Nat]
  BY SmoothingWindowAssumption
<1>2. queue = [k \in 1 .. w |-> buffer[h[k]]]
  OBVIOUS
<1>3. IsFiniteSet(1 .. w)
  BY <1>1, FS_Interval
<1> HIDE DEF w, queue
<1>4. ASSUME NEW k \in 1 .. w
      PROVE  h[k] = (IF i + k - 1 < w THEN i + k - 1 ELSE i + k - 1 - w)
  <2> DEFINE b == i + k - 1
  <2>1. b \in Nat /\ b < 2 * w
    BY <1>1
  <2> HIDE DEF b
  <2>2. b % w = IF b < w THEN b ELSE b - w
    BY <1>1, <2>1, Around
  <2>3. h[k] = b % w
    BY DEF b
  <2> HIDE DEF h
  <2>4. h[k] = IF b < w THEN b ELSE b - w
    BY <2>2, <2>3
  <2> QED BY <1>1, <2>1, <2>4 DEF b
<1>5. \A k \in 1 .. w : h[k] \in 0 .. w - 1
  BY <1>1, <1>4
<1>6. \A j, k \in 1 .. w : h[j] = h[k] => j = k
  <2> HIDE DEF h
  <2> QED BY <1>1, <1>4
<1>7. \A n \in 0 .. w - 1 : \E k \in 1 .. w : h[k] = n
  <2> HIDE DEF h
  <2> TAKE n \in 0 .. w - 1
  <2>1. CASE n >= i
    <3>1. n - i + 1 \in 1 .. w
      BY <1>1, <2>1
    <3>2. h[n - i + 1] = n
      BY <1>1, <1>4, <2>1, <3>1
    <3> QED BY <3>1, <3>2
  <2>2. CASE n < i
    <3>1. n - i + 1 + w \in 1 .. w
      BY <1>1, <2>2
    <3>2. h[n - i + 1 + w] = n
      BY <1>1, <1>4, <2>2, <3>1
    <3> QED BY <3>1, <3>2
  <2> QED BY <1>1, <2>1, <2>2
<1>8. h \in Bijection(1 .. w, 0 .. w - 1)
  <2>1. h \in [1 .. w -> 0 .. w - 1]
    BY <1>5
  <2> HIDE DEF h
  <2> QED BY <1>6, <1>7, <2>1 DEF Bijection, Injection, Surjection, IsInjective
<1>9. /\ \A k \in 1 .. w : queue[k] \in Nat
      /\ \A k \in 1 .. w : buffer[h[k]] = queue[k]
  BY <1>1, <1>2, <1>5
<1> DEFINE places == 1 .. w
           slots == 0 .. w - 1
<1> HIDE DEF h, places, slots
<1>10. SumFunctionOnSet(buffer, slots) = SumFunctionOnSet(queue, places)
  <2>1. IsFiniteSet(places) /\ h \in Bijection(places, slots)
    BY <1>3, <1>8 DEF places, slots
  <2>2. \A k \in places : queue[k] \in Nat
    BY <1>9 DEF places
  <2>3. \A k \in places : buffer[h[k]] = queue[k]
    BY <1>9 DEF places
  <2>4. ASSUME NEW g, \A k \in places : g[h[k]] = queue[k]
        PROVE  SumFunctionOnSet(g, slots) = SumFunctionOnSet(queue, places)
    BY <2>1, <2>2, <2>4, SumRenamed, SMT
  <2> QED BY <2>3, <2>4, Zenon
<1>11. DOMAIN buffer = slots /\ DOMAIN queue = places
  BY <1>1, <1>2 DEF places, slots
<1> QED BY <1>10, <1>11 DEF SumFunction, queue, w

\* What RollingMean is told of the buffer and of the reading.
LEMMA MeanIsOfTheQueue ==
    /\ Mean!MeanInit <=> /\ flow \in Levels
                         /\ OldestFirst = [k \in 1 .. SmoothingWindow |-> 0]
                         /\ reading = 0
    /\ Mean!Change <=> flow' \in Levels /\ UNCHANGED <<OldestFirst, reading>>
    /\ Mean!Measure <=> /\ OldestFirst' = Append(Tail(OldestFirst), flow)
                        /\ reading' = SumFunction(OldestFirst')
                        /\ UNCHANGED flow
    /\ UNCHANGED Mean!meanVars <=> UNCHANGED <<flow, OldestFirst, reading>>
<1>1. \A f : Mean!SumFunction(f) = SumFunction(f)
  BY DEF Mean!SumFunction, Mean!SumFunctionOnSet, Mean!FoldFunctionOnSet,
         Mean!MapThenFoldSet, SumFunction, SumFunctionOnSet, FoldFunctionOnSet,
         MapThenFoldSet
<1> QED BY <1>1 DEF Mean!MeanInit, Mean!Change, Mean!Measure, Mean!meanVars, OldestFirst

\* A step of the sensor is a step of the rolling mean, or none that it sees: only a
\* successful burst measures, and a failed one returns what was returned before.
LEMMA NextIsAMean ==
    ASSUME SensorInv, RangeInv, RangeInv', [Next]_vars
    PROVE  [Mean!Change \/ Mean!Measure]_Mean!meanVars
<1>1. CASE BurstSucceeds
  <2>1. OldestFirst' = Append(Tail(OldestFirst), flow) /\ flow' = flow
    BY <1>1, WriteIsEnqueue, MeasurementIsTheFlow
  <2>2. /\ window_index' \in Nat /\ window_index' < SmoothingWindow
        /\ smoothing_window' \in [0 .. SmoothingWindow - 1 -> Nat]
    BY NextKeepsSensor DEF SensorInv, BufferTypes
  <2>3. SumFunction(smoothing_window') = SumFunction(OldestFirst')
    BY <2>2, SumOfTheQueue DEF OldestFirst
  <2>4. reading' = SumFunction(OldestFirst')
    BY <2>3 DEF RangeInv, ReadingIsTheSum
  <2> QED BY <2>1, <2>4, MeanIsOfTheQueue
<1>2. CASE BurstFails
  <2>1. reading' = reading /\ UNCHANGED <<flow, smoothing_window, window_index>>
    BY <1>2 DEF BurstFails, bufferVars, RangeInv, ReadingIsTheSum
  <2> QED BY <2>1, MeanIsOfTheQueue DEF OldestFirst
<1>3. CASE LoadChanges
  BY <1>3, MeanIsOfTheQueue DEF LoadChanges, bufferVars, OldestFirst
<1>4. CASE ~BurstSucceeds /\ ~BurstFails /\ ~LoadChanges
  <2>1. UNCHANGED <<flow, smoothing_window, window_index, reading>>
    BY <1>4 DEF Next, InitSensor, NewBus, AddDevice, Configure, Verify,
                ReadSmoothedAmps, BurstStart, Sample, bufferVars, vars
  <2> QED BY <2>1, MeanIsOfTheQueue DEF OldestFirst
<1> QED BY <1>1, <1>2, <1>3, <1>4

\* What read_smoothed_amps() returns is the mean of the last measurements of the
\* current that flowed, zeros counted for those not made yet: bursts that fail and
\* samples that are lost leave no trace in it.
THEOREM ImplementsRollingMeanHolds == Spec => ImplementsRollingMean
<1>1. Init => SensorInv /\ RangeInv /\ Mean!MeanInit
  <2>1. ASSUME Init PROVE Mean!MeanInit
    <3>1. OldestFirst = [k \in 1 .. SmoothingWindow |-> 0]
      <4>1. ASSUME NEW k \in 1 .. SmoothingWindow
            PROVE  (window_index + k - 1) % SmoothingWindow \in 0 .. SmoothingWindow - 1
        BY <2>1, SmoothingWindowAssumption DEF Init
      <4> QED BY <2>1, <4>1 DEF Init, OldestFirst
    <3> QED BY <2>1, <3>1, MeanIsOfTheQueue DEF Init
  <2> QED BY <2>1, InitSensorInv, InitRanges
<1>2. (SensorInv /\ RangeInv) /\ [Next]_vars
          => /\ (SensorInv /\ RangeInv)'
             /\ [Mean!Change \/ Mean!Measure]_Mean!meanVars
  BY NextKeepsSensor, NextKeepsRanges, NextIsAMean
<1> QED BY <1>1, <1>2, PTL DEF Spec, ImplementsRollingMean, Mean!MeanSpec

-----------------------------------------------------------------------------
(* A steady load.                                                          *)

\* The k latest measurements are l.
LatestAre(k, l) ==
    \A i \in 1 .. SmoothingWindow : SmoothingWindow < i + k => OldestFirst[i] = l

\* While the current stays at l, no step puts anything else into the queue, and a
\* successful burst adds one more l.
LEMMA LatestStay ==
    ASSUME SensorInv, [Next]_vars, NEW l, flow = l, NEW k \in Nat, LatestAre(k, l)
    PROVE  LatestAre(k, l)' /\ (BurstSucceeds => LatestAre(k + 1, l)')
<1> DEFINE w == SmoothingWindow
           q == OldestFirst
<1>1. w \in Nat \ {0} /\ \A i \in 1 .. w : w < i + k => q[i] = l
  BY SmoothingWindowAssumption DEF LatestAre
<1>2. CASE BurstSucceeds
  <2>1. OldestFirst' = [i \in 1 .. w |-> IF i < w THEN q[i + 1] ELSE l]
    BY <1>2, WriteMovesOn
  <2>2. ASSUME NEW i \in 1 .. w, w < i + (k + 1) PROVE OldestFirst'[i] = l
    <3> HIDE DEF q, w
    <3>1. CASE i = w
      BY <1>1, <2>1, <3>1
    <3>2. CASE i < w
      <4>1. i + 1 \in 1 .. w /\ w < (i + 1) + k
        BY <1>1, <2>2, <3>2
      <4> QED BY <1>1, <2>1, <3>2, <4>1
    <3> QED BY <1>1, <3>1, <3>2
  <2>3. \A i \in 1 .. w : w < i + k => w < i + (k + 1)
    BY <1>1
  <2> QED BY <2>2, <2>3 DEF LatestAre
<1>3. CASE ~BurstSucceeds
  <2>1. UNCHANGED <<smoothing_window, window_index>>
    BY <1>3 DEF Next, LoadChanges, InitSensor, NewBus, AddDevice, Configure, Verify,
                ReadSmoothedAmps, BurstStart, Sample, BurstFails, bufferVars, vars
  <2> QED BY <1>3, <2>1 DEF LatestAre, OldestFirst
<1> QED BY <1>2, <1>3

\* A queue of one level is reported as that level exactly.
LEMMA SteadyIsExact ==
    ASSUME SensorInv, RangeInv, NEW l \in Levels, LatestAre(SmoothingWindow, l)
    PROVE  reading = l * SmoothingWindow
<1> DEFINE w == SmoothingWindow
           I == 1 .. w
<1>1. l \in Nat /\ w \in Nat \ {0}
  BY LevelsAreNat, SmoothingWindowAssumption
<1>2. /\ window_index \in Nat /\ window_index < w
      /\ smoothing_window \in [0 .. w - 1 -> Nat]
  BY DEF SensorInv, BufferTypes
<1>3. reading = SumFunction(OldestFirst)
  BY <1>2, SumOfTheQueue DEF RangeInv, ReadingIsTheSum, OldestFirst
<1>4. \A i \in I : OldestFirst[i] = l
  BY <1>1 DEF LatestAre
<1>5. SumFunction(OldestFirst) = SumFunctionOnSet(OldestFirst, I)
  BY DEF SumFunction, OldestFirst
<1>6. IsFiniteSet(I) /\ Cardinality(I) = w
  BY <1>1, FS_Interval
<1> HIDE DEF I, w
<1>7. SumFunctionOnSet(OldestFirst, I) = Cardinality(I) * l
  BY <1>1, <1>4, <1>6, SumOfEquals
<1>8. Cardinality(I) * l = l * w
  BY <1>1, <1>6
<1> QED BY <1>3, <1>5, <1>7, <1>8 DEF w

\* After as many successful bursts as the ring buffer has places, a current that
\* stays at one level is what is reported, and stays so.  Each burst adds one to the
\* latest measurements that are l: six bursts, the size of the firmware's buffer.
THEOREM SettlesOnTheLoadHolds ==
    ASSUME SmoothingWindow <= 6 PROVE Spec => SettlesOnTheLoad
<1> SUFFICES ASSUME NEW l \in Levels
             PROVE  Spec => (<>[](flow = l) /\ []<><<BurstSucceeds>>_vars
                                => <>[](reading = l * SmoothingWindow))
  BY DEF SettlesOnTheLoad
<1> DEFINE Inv == SensorInv /\ RangeInv
           L(k) == LatestAre(k, l)
<1>1. Spec => []Inv
  BY InitSensorInv, InitRanges, NextKeepsSensor, NextKeepsRanges, PTL DEF Spec
<1>2. L(0)
  BY SmoothingWindowAssumption DEF LatestAre
<1>3. ASSUME NEW k \in 0 .. 5, Inv, [Next]_vars, flow = l
      PROVE  (L(k + 1) => L(k + 1)') /\ (L(k) /\ BurstSucceeds => L(k + 1)')
  BY <1>3, LatestStay
<1>4. Inv /\ L(6) => reading = l * SmoothingWindow
  <2>1. L(6) => LatestAre(SmoothingWindow, l)
    BY SmoothingWindowAssumption DEF LatestAre
  <2> QED BY <2>1, SteadyIsExact
<1> HIDE DEF Inv, L
<1>5. Inv /\ [Next]_vars /\ flow = l
          => (L(1) => L(1)') /\ (L(0) /\ BurstSucceeds => L(1)')
  BY <1>3
<1>6. Inv /\ [Next]_vars /\ flow = l
          => (L(2) => L(2)') /\ (L(1) /\ BurstSucceeds => L(2)')
  BY <1>3
<1>7. Inv /\ [Next]_vars /\ flow = l
          => (L(3) => L(3)') /\ (L(2) /\ BurstSucceeds => L(3)')
  BY <1>3
<1>8. Inv /\ [Next]_vars /\ flow = l
          => (L(4) => L(4)') /\ (L(3) /\ BurstSucceeds => L(4)')
  BY <1>3
<1>9. Inv /\ [Next]_vars /\ flow = l
          => (L(5) => L(5)') /\ (L(4) /\ BurstSucceeds => L(5)')
  BY <1>3
<1>10. Inv /\ [Next]_vars /\ flow = l
          => (L(6) => L(6)') /\ (L(5) /\ BurstSucceeds => L(6)')
  BY <1>3
<1>11. Spec /\ <>[](flow = l) /\ []<><<BurstSucceeds>>_vars => <>[]L(6)
  BY <1>1, <1>2, <1>5, <1>6, <1>7, <1>8, <1>9, <1>10, PTL DEF Spec
<1> QED BY <1>1, <1>4, <1>11, PTL
=============================================================================
