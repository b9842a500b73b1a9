--------------------------- MODULE SensorPipeline ---------------------------
(***************************************************************************)
(* firmware/main/features/sensor/current_sensor.cpp: the converter is set  *)
(* up over I2C; then bursts of samples, the RMS value of those that could  *)
(* be read, and the ring buffer whose mean Task_ReadSensors (main.cpp)     *)
(* reports.                                                                *)
(*                                                                         *)
(* The current is a square wave, steady during a burst: a sample finds it  *)
(* at flow or at -flow.  Levels are multiples of 3 A, for which volts,     *)
(* counts and amperes are whole numbers.  The mean of the ring buffer is   *)
(* kept as its sum.                                                        *)
(***************************************************************************)
EXTENDS Integers, Functions

CONSTANTS
    SmoothingWindow,    \* SMOOTHING_WINDOW_SIZE (6)
    CycleCount,         \* RMS_CYCLE_COUNT (25)
    CyclePeriodMs,      \* AC_CYCLE_PERIOD_MS (20)
    SamplesPerSecond,   \* ADS1115_SPS (860)
    Levels              \* currents that may flow

\* RMS_TOTAL_SAMPLES, a uint16_t.
TotalSamples == ((CycleCount * CyclePeriodMs * SamplesPerSecond) \div 1000) % 2^16

ASSUME SmoothingWindowAssumption == SmoothingWindow \in Nat \ {0}
ASSUME TotalSamplesAssumption == TotalSamples \in Nat \ {0, 1}
ASSUME LevelsAssumption == \A l \in Levels : l \in 0 .. 48 /\ l % 3 = 0

VARIABLES
    flow,               \* the current through the clamp
    pc,                 \* in init(), "delay" in vTaskDelay, or "burst"
    handles,            \* which of bus_handle, dev_handle are not null
    adc_config,         \* the ADS1115's configuration register
    sampled,            \* loop counter i
    valid,              \* valid_samples
    sum_of_squares,
    smoothing_window,   \* CurrentSensor's ring buffer
    window_index,       \* where the next value goes
    reading             \* the sum behind the last value returned

i2cVars == <<handles, adc_config>>
burstVars == <<sampled, valid, sum_of_squares>>
bufferVars == <<smoothing_window, window_index>>
vars == <<flow, pc, i2cVars, burstVars, bufferVars, reading>>

Highest == CHOOSE l \in Levels : \A k \in Levels : k <= l

TypeOK ==
    /\ flow \in Levels
    /\ pc \in {"bus", "device", "configure", "verify", "failed", "delay", "burst"}
    /\ handles \subseteq {"bus", "dev"}
    /\ adc_config \in 0 .. 2^16 - 1
    /\ sampled \in 0 .. TotalSamples
    /\ valid \in 0 .. sampled
    /\ sum_of_squares \in 0 .. TotalSamples * Highest * Highest
    /\ smoothing_window \in [0 .. SmoothingWindow - 1 -> 0 .. Highest]
    /\ window_index \in 0 .. SmoothingWindow - 1
    /\ reading \in 0 .. SmoothingWindow * Highest

\* What the ADS1115 holds after power-up: single shots, +-2.048 V, AIN0 to AIN1.
PowerUpConfig == 1 * 2^15 + 2 * 2^9 + 1 * 2^8 + 4 * 2^5 + 3

Init ==
    /\ flow \in Levels
    /\ pc = "bus"
    /\ handles = {} /\ adc_config = PowerUpConfig
    /\ sampled = 0 /\ valid = 0 /\ sum_of_squares = 0
    /\ smoothing_window = [i \in 0 .. SmoothingWindow - 1 |-> 0]
    /\ window_index = 0
    /\ reading = 0

-----------------------------------------------------------------------------
(* The ADS1115 and its registers.                                          *)

\* ADS1115_CONFIG_CONTINUOUS: OS, MUX, PGA, MODE, DR, COMP_QUE.
ConfigContinuous == 0 * 2^15 + 4 * 2^12 + 1 * 2^9 + 0 * 2^8 + 7 * 2^5 + 3

\* Sixteenths of a microvolt per count, by PGA.
LsbOf(pga) ==
    CASE pga = 0 -> 3000 [] pga = 1 -> 2000 [] pga = 2 -> 1000
      [] pga = 3 -> 500  [] pga = 4 -> 250  [] OTHER -> 125

\* The clamp's voltage in microvolts: 1 V for 30 A, around the midpoint.
Voltage(current) == 1650000 + (current \div 3) * 100000

\* The conversion register, in continuous mode on AIN0; otherwise it stands
\* still.
Converted(current) ==
    LET count == (16 * Voltage(current)) \div LsbOf((adc_config \div 2^9) % 8)
    IN  IF (adc_config \div 2^12) % 8 = 4 /\ (adc_config \div 2^8) % 2 = 0
        THEN IF count > 32767 THEN 32767 ELSE count
        ELSE 0

\* On the bus a word is two bytes, the high one first.
MsbFirst(word) == <<(word \div 2^8) % 2^8, word % 2^8>>

\* Mutant: low byte first.
WordOfSwapped(bytes) ==
    LET word == bytes[2] * 2^8 + bytes[1]
    IN  IF word >= 2^15 THEN word - 2^16 ELSE word

\* read_register(): an int16_t.
WordOf(bytes) ==
    LET word == bytes[1] * 2^8 + bytes[2]
    IN  IF word >= 2^15 THEN word - 2^16 ELSE word

\* Counts to amperes, with ADS1115_LSB_VOLTAGE, DC_BIAS_MIDPOINT_V and
\* CT_CALIBRATION_FACTOR.
Amps(raw) == ((raw * 125 - 1650000) * 30) \div 1000000

-----------------------------------------------------------------------------
(* CurrentSensor::init().  app_main() stops when it fails.                 *)

NewBus ==
    /\ pc = "bus"
    /\ \/ handles' = {"bus"} /\ pc' = "device"
       \/ pc' = "failed" /\ UNCHANGED handles
    /\ UNCHANGED <<flow, adc_config, burstVars, bufferVars, reading>>

\* A bus without the device is deleted again.
AddDevice ==
    /\ pc = "device"
    /\ \/ handles' = handles \cup {"dev"} /\ pc' = "configure"
       \/ handles' = handles \ {"bus"} /\ pc' = "failed"
    /\ UNCHANGED <<flow, adc_config, burstVars, bufferVars, reading>>

\* Mutant: the result of the write is not looked at.
ConfigureUnchecked ==
    /\ pc = "configure"
    /\ adc_config' \in {adc_config, ConfigContinuous}
    /\ pc' = "verify"
    /\ UNCHANGED <<flow, handles, burstVars, bufferVars, reading>>

\* A write that is not acknowledged may have reached the converter.
Configure ==
    /\ pc = "configure"
    /\ \/ adc_config' = ConfigContinuous /\ pc' = "verify"
       \/ adc_config' \in {adc_config, ConfigContinuous} /\ pc' = "failed"
    /\ UNCHANGED <<flow, handles, burstVars, bufferVars, reading>>

\* The register is read back; what it holds is not compared.
Verify ==
    /\ pc = "verify"
    /\ pc' \in {"delay", "failed"}
    /\ UNCHANGED <<flow, i2cVars, burstVars, bufferVars, reading>>

InitSensor == NewBus \/ AddDevice \/ Configure \/ Verify

-----------------------------------------------------------------------------
(* Bursts.                                                                 *)

\* Environment: loads are switched on and off between bursts.
LoadChanges ==
    /\ pc # "burst"
    /\ flow' \in Levels
    /\ UNCHANGED <<pc, i2cVars, burstVars, bufferVars, reading>>

BurstStart ==
    /\ pc = "delay"
    /\ pc' = "burst"
    /\ sampled' = 0 /\ valid' = 0 /\ sum_of_squares' = 0
    /\ UNCHANGED <<flow, i2cVars, bufferVars, reading>>

\* One turn of the loop; a read over I2C that fails is skipped.
Sample ==
    /\ pc = "burst" /\ sampled < TotalSamples
    /\ sampled' = sampled + 1
    /\ \/ \E current \in {flow, -flow} :
            LET amps == Amps(WordOf(MsbFirst(Converted(current))))
            IN  /\ valid' = valid + 1
                /\ sum_of_squares' = sum_of_squares + amps * amps
       \/ UNCHANGED <<valid, sum_of_squares>>
    /\ UNCHANGED <<flow, pc, i2cVars, bufferVars, reading>>

MinValid == (TotalSamples * 3) \div 4

SquareRoot(n) == CHOOSE r \in 0 .. n : r * r <= n /\ (r + 1) * (r + 1) > n

\* Mutant: the mean is taken over all samples, read or not.
RmsOverAll == SquareRoot(sum_of_squares \div TotalSamples)
Rms == SquareRoot(sum_of_squares \div valid)

BurstDone == pc = "burst" /\ sampled = TotalSamples

\* Too few samples: the mean of the buffer as it is.
BurstFails ==
    /\ BurstDone /\ valid < MinValid
    /\ reading' = SumFunction(smoothing_window)
    /\ pc' = "delay"
    /\ UNCHANGED <<flow, i2cVars, burstVars, bufferVars>>

\* Mutant: the index is tested after the write and runs one too far.
BurstSucceedsPastEnd ==
    /\ BurstDone /\ valid >= MinValid
    /\ smoothing_window' = [smoothing_window EXCEPT ![window_index] = Rms]
    /\ window_index' = IF window_index < SmoothingWindow THEN window_index + 1 ELSE 0
    /\ reading' = SumFunction(smoothing_window')
    /\ pc' = "delay"
    /\ UNCHANGED <<flow, i2cVars, burstVars>>

BurstSucceeds ==
    /\ BurstDone /\ valid >= MinValid
    /\ smoothing_window' = [smoothing_window EXCEPT ![window_index] = Rms]
    /\ window_index' = (window_index + 1) % SmoothingWindow
    /\ reading' = SumFunction(smoothing_window')
    /\ pc' = "delay"
    /\ UNCHANGED <<flow, i2cVars, burstVars>>

ReadSmoothedAmps == BurstStart \/ Sample \/ BurstFails \/ BurstSucceeds

Next == LoadChanges \/ InitSensor \/ ReadSmoothedAmps

Spec == Init /\ [][Next]_vars

-----------------------------------------------------------------------------
\* The sampling task runs only over a bus and a device that are there, and over a
\* converter in the mode and gain compute_rms_amps() takes for granted: a setup
\* that failed half way never leads to readings.
SamplesOnlyWhatIsConfigured ==
    pc \in {"delay", "burst"} =>
        handles = {"bus", "dev"} /\ adc_config = ConfigContinuous

\* read_smoothed_amps() returns the mean of the last measurements of the current
\* that flowed: failed bursts and failed samples leave no trace in it, and the
\* ring buffer forgets the oldest measurement and no other.
Mean == INSTANCE RollingMean WITH
            Window <- SmoothingWindow,
            last <- [k \in 1 .. SmoothingWindow |->
                        smoothing_window[(window_index + k - 1) % SmoothingWindow]],
            total <- reading

ImplementsRollingMean == Mean!MeanSpec

\* The rolling mean has no memory beyond its window: if the current stays at one
\* level and bursts go on succeeding, that level is what is reported from some
\* time on, whatever flowed and failed before.
SettlesOnTheLoad ==
    \A l \in Levels :
        <>[](flow = l) /\ []<><<BurstSucceeds>>_vars =>
            <>[](reading = l * SmoothingWindow)
=============================================================================
