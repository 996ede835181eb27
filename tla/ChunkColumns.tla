----------------------------- MODULE ChunkColumns -----------------------------
(***************************************************************************)
(* The payload of a V1 chunk: how writer.rs encodes a cluster's samples,   *)
(* and how reader.rs finds them again.                                     *)
(*                                                                         *)
(* The encoder pushes the values field by field, each for all frames, in   *)
(* the order of the sample's fields.  Beside them it writes a table of     *)
(* columns, whose ids come from format.rs and whose places are computed    *)
(* from a list of sizes of its own.  The decoder has ids and sizes of its  *)
(* own too.  Lists are in the order of the sample's fields.                *)
(***************************************************************************)
EXTENDS TelemetryColumns

(* format.rs: the column ids of a cluster.                                 *)
CONTROL_COLUMNS == Ids(1, 4) \o Ids(10, 17)
MOTION_COLUMNS_EX == Ids(1, 2) \o Ids(20, 26)
TYRES_COLUMNS == Ids(1, 2) \o Ids(30, 58)
POWERTRAIN_COLUMNS == Ids(1, 2) \o Ids(60, 81)
SESSION_COLUMNS == Ids(1, 2) \o Ids(90, 119)
TIMING_COLUMNS == Ids(1, 2) \o Ids(120, 138)
CAR_STATE_COLUMNS == Ids(1, 2) \o Ids(150, 189)
ENVIRONMENT_COLUMNS == Ids(1, 2) \o Ids(200, 208)
OTHER_CARS_COLUMNS == Ids(1, 2) \o Ids(210, 213)

(* encode_<cluster>_chunk: what is pushed, and the columns and sizes that  *)
(* build_entries is given.                                                 *)
Encoder(sample, columns, sizes) == [pushed |-> sample, ids |-> columns, sizes |-> sizes]

EncodeControls == Encoder(ControlSample, CONTROL_COLUMNS, <<8, 8>> \o Times(10, 4))
EncodeMotion ==
  Encoder(MotionSample, MOTION_COLUMNS_EX, <<8, 8>> \o Times(4, 12) \o Times(3, 4))
EncodeTyres ==
  Encoder(TyreSample, TYRES_COLUMNS,
          <<8, 8>> \o Times(23, 16) \o Times(3, 48) \o Times(3, 4))
EncodePowertrain == Encoder(PowertrainSample, POWERTRAIN_COLUMNS, <<8, 8>> \o Times(22, 4))
EncodeSession ==
  Encoder(SessionSample, SESSION_COLUMNS, <<8, 8>> \o Times(15, 4) \o <<66>> \o Times(14, 4))
EncodeTiming ==
  Encoder(TimingSample, TIMING_COLUMNS, <<8, 8>> \o Times(12, 4) \o Times(6, 30) \o <<4>>)
EncodeCarState ==
  Encoder(CarStateSample, CAR_STATE_COLUMNS,
          <<8, 8, 20, 4, 8>> \o Times(16, 4) \o <<66, 4, 4, 16>> \o Times(17, 4))
EncodeEnvironment == Encoder(EnvironmentSample, ENVIRONMENT_COLUMNS, <<8, 8>> \o Times(9, 4))
EncodeOtherCars == Encoder(OtherCarsSample, OTHER_CARS_COLUMNS, <<8, 8, 4, 4, 720, 240>>)

(* decode_<cluster>_payload: the column of each field, and how many bytes  *)
(* of it are one frame's.                                                  *)
Decoder(ids, sizes) == [ids |-> ids, sizes |-> sizes]

DecodeControls == Decoder(Ids(1, 4) \o Ids(10, 17), <<8, 8>> \o Times(10, 4))
DecodeMotion == Decoder(Ids(1, 2) \o Ids(20, 26), <<8, 8>> \o Times(4, 12) \o Times(3, 4))
DecodeTyres ==
  Decoder(Ids(1, 2) \o Ids(30, 58),
          <<8, 8>> \o Times(23, 16) \o Times(3, 48) \o Times(3, 4))
DecodePowertrain == Decoder(Ids(1, 2) \o Ids(60, 81), <<8, 8>> \o Times(22, 4))
DecodeSession ==
  Decoder(Ids(1, 2) \o Ids(90, 119), <<8, 8>> \o Times(15, 4) \o <<33 * 2>> \o Times(14, 4))
DecodeTiming ==
  Decoder(Ids(1, 2) \o Ids(120, 138),
          <<8, 8>> \o Times(12, 4) \o Times(6, 15 * 2) \o <<4>>)
DecodeCarState ==
  Decoder(Ids(1, 2) \o Ids(150, 189),
          <<8, 8, 20, 4, 8>> \o Times(16, 4) \o <<33 * 2, 4, 4, 16>> \o Times(17, 4))
DecodeEnvironment == Decoder(Ids(1, 2) \o Ids(200, 208), <<8, 8>> \o Times(9, 4))
DecodeOtherCars == Decoder(Ids(1, 2) \o Ids(210, 213), <<8, 8, 4, 4, 720, 240>>)

Encode ==
  [controls    |-> EncodeControls,    motion      |-> EncodeMotion,
   tyres       |-> EncodeTyres,       powertrain  |-> EncodePowertrain,
   session     |-> EncodeSession,     timing      |-> EncodeTiming,
   car_state   |-> EncodeCarState,    environment |-> EncodeEnvironment,
   other_cars  |-> EncodeOtherCars]

Decode ==
  [controls    |-> DecodeControls,    motion      |-> DecodeMotion,
   tyres       |-> DecodeTyres,       powertrain  |-> DecodePowertrain,
   session     |-> DecodeSession,     timing      |-> DecodeTiming,
   car_state   |-> DecodeCarState,    environment |-> DecodeEnvironment,
   other_cars  |-> DecodeOtherCars]

(* Bytes at..at+len-1 of the payload, counted from 0.                      *)
Bytes(at, len) == [at |-> at, len |-> len]
SumBefore(s, k) ==
  LET sum[j \in 0..(k - 1)] == IF j = 0 THEN 0 ELSE sum[j - 1] + s[j] IN sum[k - 1]

(* Where the value of field k of frame i is, of n frames.                  *)
PushedBytes(c, n, k, i) ==
  LET widths == [j \in FieldsOf(c) |->
                   Encode[c].pushed[j].lanes * Encode[c].pushed[j].width]
  IN  Bytes(n * SumBefore(widths, k) + (i - 1) * widths[k], widths[k])

(* build_entries: the bytes of a column, from the size of a frame's value. *)
ColumnEntry_Late(sizes, n, k) ==  \* Mutant: the offset is advanced before it is used.
  Bytes(n * SumBefore(sizes, k + 1), n * sizes[k])

ColumnEntry(sizes, n, k) == Bytes(n * SumBefore(sizes, k), n * sizes[k])

(* find_column, column_bytes and the chunks_exact of the column readers: a *)
(* column that is missing or not as long as expected fails the chunk.      *)
NoBytes == Bytes(0, 0)

ColumnBytes(c, n, k, i) ==
  LET size == Decode[c].sizes[k]
      found == {j \in DOMAIN Encode[c].ids : Encode[c].ids[j] = Decode[c].ids[k]}
      column == ColumnEntry(Encode[c].sizes, n, CHOOSE j \in found : \A m \in found : j <= m)
  IN  IF found = {} THEN NoBytes
      ELSE IF column.len # n * size THEN NoBytes
      ELSE Bytes(column.at + (i - 1) * size, size)

(* A chunk gives back what was put into it: however many frames it holds,  *)
(* every field of every sample is decoded from the very bytes it was       *)
(* encoded to.  The pushes, the sizes, the column ids and the decoder are  *)
(* four lists that the code keeps apart.                                   *)
ChunkGivesBack(n) ==
  \A c \in FrameClusters : \A k \in FieldsOf(c) : \A i \in 1..n :
    ColumnBytes(c, n, k, i) = PushedBytes(c, n, k, i)

MaxRows == 3  \* bound: frames of a chunk; the places are linear in their number
ChunksAreReadBack == \A n \in 1..MaxRows : ChunkGivesBack(n)
=============================================================================
