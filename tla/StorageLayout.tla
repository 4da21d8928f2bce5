----------------------------- MODULE StorageLayout -----------------------------
(***************************************************************************)
(* The registers of a hand and their storage units: the tables of data     *)
(* descriptors (include/wujihandcpp/data), the walk over hand, fingers and *)
(* joints that gives each unit its id, its index on the wire and its       *)
(* policy (device/data_operator.hpp), the index map of the handler, and    *)
(* the conversions between what the user sees and what the device holds.   *)
(* Widths of data and the names of types are left out.  No variables.      *)
(***************************************************************************)
EXTENDS Integers, Sequences, FiniteSets

CONSTANTS
    RawMax,  \* INT32_MAX, scaled down: a full turn in raw units
    Scale    \* angles are integers, Scale of them to one raw unit

ASSUME LayoutAssumption == RawMax \in Nat \ {0} /\ Scale \in Nat \ {0}

--------------------------------------------------------------------------------
\* Descriptors, in the order of the DataTuple of their class.

Data(name, index, sub_index, policy) ==
    [name |-> name, index |-> index, sub_index |-> sub_index, policy |-> policy]

HandDatas == <<
    Data("Handedness", 20624, 0, "plain"),
    Data("FirmwareVersion", 20993, 1, "plain"),
    Data("FirmwareDate", 20993, 2, "plain"),
    Data("SystemTime", 21002, 1, "plain"),
    Data("HandTemperature", 21002, 9, "plain"),
    Data("InputVoltage", 21002, 10, "plain"),
    Data("PdoEnabled", 21152, 5, "plain"),
    Data("RPdoId", 21156, 2, "plain"),
    Data("TPdoId", 21156, 2, "plain"),
    Data("PdoInterval", 21156, 5, "plain"),
    Data("RPdoTriggerOffset", 21156, 6, "plain"),
    Data("TPdoTriggerOffset", 21156, 7, "plain") >>

JointDatas == <<
    Data("HardwareVersion", 1, 1, "plain"),
    Data("HardwareDate", 1, 2, "plain"),
    Data("ControlMode", 2, 1, "plain"),
    Data("SinLevel", 5, 8, "plain"),
    Data("CurrentLimit", 7, 2, "plain"),
    Data("BusVoltage", 11, 8, "plain"),
    Data("Temperature", 11, 9, "plain"),
    Data("ResetError", 13, 4, "plain"),
    Data("ErrorCode", 63, 0, "plain"),
    Data("Enabled", 64, 0, "control word"),
    Data("ActualPosition", 100, 0, "position"),
    Data("TargetPosition", 122, 0, "position"),
    Data("UpperLimit", 14, 27, "position"),
    Data("LowerLimit", 14, 28, "position") >>

Fingers == 0..4
Joints == 0..3

--------------------------------------------------------------------------------
\* The walk.  A place is the pair of packed words handed down: one byte a level.

HandPlace == [i |-> 0, shape |-> 0]
Sub(place, n, subs) == [i |-> 256 * place.i + n, shape |-> 256 * place.shape + subs]
JointPlace(f, j) == Sub(Sub(HandPlace, f, 5), j, 4)

FlatIndexOfHand(place) == ((place.i \div 256) % 256) * (place.shape \div 256) + (place.i % 256)

FlatIndex(place) == ((place.i \div 256) % 256) * (place.shape % 256) + (place.i % 256)

Masked(place, joints) == place.shape # 0 /\ FlatIndex(place) \in joints

JointDataCount == Len(JointDatas)
FingerDataCount == 4 * JointDataCount
StorageOffset(f, j) == Len(HandDatas) + f * FingerDataCount + j * JointDataCount
IndexOffset(f, j) == 8192 + 2048 * f + 256 * j

\* Reverse each J1 except thumb.
IsReversed(place) == place.i % 256 = 0 /\ place.i # 0

\* On a reversed joint the two limits swap their registers.
SubIndex(data, place) ==
    CASE data.name = "UpperLimit" /\ IsReversed(place) -> 28
      [] data.name = "LowerLimit" /\ IsReversed(place) -> 27
      [] OTHER -> data.sub_index

\* StorageInfo, as handler_.init_storage_info gets it for the unit id.
Info(id, data, place, offset) ==
    [id |-> id, name |-> data.name, place |-> place, policy |-> data.policy,
     index |-> data.index + offset, sub_index |-> SubIndex(data, place)]

StorageInfos ==
    {Info(k - 1, HandDatas[k], HandPlace, 0) : k \in 1..Len(HandDatas)} \cup
    {Info(StorageOffset(f, j) + k - 1, JointDatas[k], JointPlace(f, j), IndexOffset(f, j))
        : f \in Fingers, j \in Joints, k \in 1..JointDataCount}

StorageUnitCount == Len(HandDatas) + 5 * FingerDataCount

\* The unit that iterate<Data> reaches from a joint, and from a finger those of its joints.
JointUnit(name, f, j) ==
    StorageOffset(f, j) + (CHOOSE k \in 1..JointDataCount : JointDatas[k].name = name) - 1
FingerUnits(name, f) == [n \in 1..4 |-> JointUnit(name, f, n - 1)]
HandUnit(name) == (CHOOSE k \in 1..Len(HandDatas) : HandDatas[k].name = name) - 1

\* be_uint16_t on a little-endian host: stored with its bytes swapped, and back.
SwapEndian(n) == 256 * (n % 256) + (n \div 256)

Key(info) == <<SwapEndian(info.index), info.sub_index>>

\* find_storage_by_index in a map that init_storage_info has filled up to a unit: the last
\* one with an index stays, and an unknown index is an exception.
Found(key, filled) ==
    {n \in StorageInfos : n.id < filled /\ n.index = SwapEndian(key[1]) /\ n.sub_index = key[2]}

FindStorageFirst(key, filled) ==
    CHOOSE n \in Found(key, filled) : \A m \in Found(key, filled) : n.id =< m.id

FindStorage(key, filled) ==
    CHOOSE n \in Found(key, filled) : \A m \in Found(key, filled) : m.id =< n.id

--------------------------------------------------------------------------------
\* Conversions.  A raw position is a signed word from -RawMax - 1 to RawMax.

RawMin == -RawMax - 1

\* std::round of a / Scale, half away from 0.
Round(a) ==
    IF a >= 0 THEN (2 * a + Scale) \div (2 * Scale) ELSE -((Scale - 2 * a) \div (2 * Scale))

ToRawPosition(a) ==
    Round(IF a < RawMin * Scale THEN RawMin * Scale ELSE IF a > RawMax * Scale THEN RawMax * Scale ELSE a)

ExtractRawPosition(r) == r * Scale

\* The negation of RawMin overflows: undefined, and the usual build wraps.
Negate(r) == IF r = RawMin THEN RawMin ELSE -r

StoreData(info, v) ==
    CASE info.policy = "control word" -> IF v THEN 1 ELSE 5
      [] info.policy = "position" ->
            IF IsReversed(info.place) THEN Negate(ToRawPosition(v)) ELSE ToRawPosition(v)
      [] OTHER -> v

LoadData(info, s) ==
    CASE info.policy = "control word" -> s = 1
      [] info.policy = "position" ->
            IF IsReversed(info.place) THEN -ExtractRawPosition(s) ELSE ExtractRawPosition(s)
      [] OTHER -> s

\* The same for the arrays of a PDO frame: pdo_write_async_unchecked and the realtime thread.
PdoTargetOfAnyFinger(f, j, a) == IF j = 0 THEN Negate(ToRawPosition(a)) ELSE ToRawPosition(a)

PdoTarget(f, j, a) ==
    IF j = 0 /\ f # 0 THEN Negate(ToRawPosition(a)) ELSE ToRawPosition(a)

PdoActual(f, j, r) == IF j = 0 /\ f # 0 THEN -ExtractRawPosition(r) ELSE ExtractRawPosition(r)

--------------------------------------------------------------------------------
\* Properties.

InfoOf == [id \in 0..(StorageUnitCount - 1) |-> CHOOSE n \in StorageInfos : n.id = id]

\* Every unit is initialised exactly once, and a reply that carries the index of a unit's
\* request finds that unit again.  The one exception is RPdoId, which shares the index of
\* TPdoId: its replies are credited to TPdoId, which comes later.
RepliesNameTheirUnit ==
    /\ {n.id : n \in StorageInfos} = 0..(StorageUnitCount - 1)
    /\ Cardinality(StorageInfos) = StorageUnitCount
    /\ \A n \in StorageInfos :
          LET found == FindStorage(Key(n), StorageUnitCount)
          IN  found.name = (IF n.name = "RPdoId" THEN "TPdoId" ELSE n.name)
              /\ (n.name # "RPdoId" => found = n)

Angles == (2 * RawMin * Scale)..(2 * RawMax * Scale)
Raws == RawMin..RawMax

\* A position written through SDO reaches the device as the one written through PDO, and is
\* read back by either path as it was written, to half a raw unit and within a turn; the
\* upper limit is never below the lower one, whichever way a joint turns; and Enabled is
\* read back as written.
PathsAgree ==
    /\ \A f \in Fingers, j \in Joints :
          LET info_of(name) == InfoOf[JointUnit(name, f, j)]
          IN  /\ \A a \in Angles :
                    /\ StoreData(info_of("TargetPosition"), a) = PdoTarget(f, j, a)
                    /\ a \in (-RawMax * Scale)..(RawMax * Scale) =>
                          2 * (LoadData(info_of("TargetPosition"), PdoTarget(f, j, a)) - a)
                              \in (-Scale)..Scale
              /\ \A r \in Raws : LoadData(info_of("ActualPosition"), r) = PdoActual(f, j, r)
              /\ \A low, high \in Raws :
                    LET register(info) == IF info.sub_index = 27 THEN high ELSE low
                        limit(name) == LoadData(info_of(name), register(info_of(name)))
                    IN  low =< high => limit("LowerLimit") =< limit("UpperLimit")
              /\ \A v \in BOOLEAN :
                    LoadData(info_of("Enabled"), StoreData(info_of("Enabled"), v)) = v

================================================================================
