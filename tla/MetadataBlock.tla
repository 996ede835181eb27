---------------------------- MODULE MetadataBlock ----------------------------
(***************************************************************************)
(* The metadata block of both file formats: one encoder (writer.rs) and    *)
(* two decoders (reader.rs, reader_v2.rs).                                 *)
(*                                                                         *)
(* A block is a sequence of bytes without a table of contents: a decoder   *)
(* finds a value only if it has consumed exactly the bytes before it, and  *)
(* asks whether enough bytes are left for the parts that old files lack.   *)
(* Texts, the creation time and floats are the bytes they are made of; the *)
(* poll rate is in thousandths of a hertz; session_type is -1 for none.    *)
(***************************************************************************)
EXTENDS Integers, Sequences

None == -1

(* What the bytes of a number count; four of them are the longest number.  *)
Weight == <<1, 256, 65536, 16777216>>

LittleEndian(v, n) == [k \in 1..n |-> (v \div Weight[k]) % 256]

HzToX1000(hz) == IF hz > 0 THEN hz ELSE 120000

(* An empty raw page is left out, its length too. *)
EncodeStatic(raw) == IF raw = << >> THEN << >> ELSE LittleEndian(Len(raw), 4) \o raw

EncodeMetadata(m) ==
  LittleEndian(0, 4) \o m.created  \* the magic
  \o LittleEndian(HzToX1000(m.poll_hz), 4) \o LittleEndian(m.chunk_rows, 4)
  \o LittleEndian(Len(m.track), 2) \o LittleEndian(Len(m.car), 2) \o m.track \o m.car
  \o LittleEndian(Len(m.sm_version), 2) \o LittleEndian(Len(m.ac_version), 2)
  \o LittleEndian(m.sessions, 4) \o LittleEndian(m.num_cars, 4)
  \o m.sm_version \o m.ac_version
  \o LittleEndian(m.sector_count, 4) \o LittleEndian(m.max_rpm, 4)
  \o m.max_torque \o m.max_power \o m.max_fuel \o LittleEndian(m.penalties, 4)
  \o EncodeStatic(m.raw_static)
  \o IF m.session_type # None
     THEN LittleEndian(1, 4) \o LittleEndian(m.session_type, 4)
     ELSE LittleEndian(0, 4)

(* A decoder, with float the width it takes a float to have.  A read that  *)
(* finds too few bytes gives zero and leaves none.                         *)
Read(b, p, n) == IF p + n <= Len(b) THEN SubSeq(b, p + 1, p + n) ELSE << >>
Worth(bytes, k) == IF k <= Len(bytes) THEN Weight[k] * bytes[k] ELSE 0
Number(b, p, n) ==
  LET bytes == Read(b, p, n)
  IN  Worth(bytes, 1) + Worth(bytes, 2) + Worth(bytes, 3) + Worth(bytes, 4)
Left(b, p) == IF p <= Len(b) THEN Len(b) - p ELSE 0

DecodeBlock(b, float) ==
  LET track_len == Number(b, 20, 2)
      car_len == Number(b, 22, 2)
      ext == 24 + track_len + car_len
      has_ext == Left(b, ext) >= 12
      sm_len == IF has_ext THEN Number(b, ext, 2) ELSE 0
      ac_len == IF has_ext THEN Number(b, ext + 2, 2) ELSE 0
      static == IF has_ext THEN ext + 12 + sm_len + ac_len ELSE ext
      has_static == Left(b, static) >= 24
      StaticNumber(p, n) == IF has_static THEN Number(b, static + p, n) ELSE 0
      StaticFloat(p) == IF has_static THEN Read(b, static + p, float) ELSE << >>
      raw == IF has_static THEN static + 12 + 3 * float ELSE static
      raw_len == IF Left(b, raw) >= 4 THEN Number(b, raw, 4) ELSE 0
      has_raw == raw_len > 0 /\ raw_len <= Left(b, raw) - 4
      tail == IF Left(b, raw) < 4 THEN raw ELSE IF has_raw THEN raw + 4 + raw_len ELSE raw + 4
      has_type == Left(b, tail) >= 8 /\ Number(b, tail, 4) # 0
  IN  [created |-> Read(b, 4, 8), poll_hz |-> Number(b, 12, 4), chunk_rows |-> Number(b, 16, 4),
       track |-> Read(b, 24, track_len), car |-> Read(b, 24 + track_len, car_len),
       sm_version |-> Read(b, ext + 12, sm_len),
       ac_version |-> Read(b, ext + 12 + sm_len, ac_len),
       sessions |-> IF has_ext THEN Number(b, ext + 4, 4) ELSE 0,
       num_cars |-> IF has_ext THEN Number(b, ext + 8, 4) ELSE 0,
       sector_count |-> StaticNumber(0, 4), max_rpm |-> StaticNumber(4, 4),
       max_torque |-> StaticFloat(8), max_power |-> StaticFloat(8 + float),
       max_fuel |-> StaticFloat(8 + 2 * float), penalties |-> StaticNumber(8 + 3 * float, 4),
       raw_static |-> IF has_raw THEN Read(b, raw + 4, raw_len) ELSE << >>,
       session_type |-> IF has_type THEN Number(b, tail + 4, 4) ELSE None]

DecodeMetadata(b) == DecodeBlock(b, 4)
DecodeMetadataV2(b) == DecodeBlock(b, 8)

-----------------------------------------------------------------------------
(* Small blocks: texts of different lengths, with or without raw page and  *)
(* session type.                                                           *)
SomeMetadata ==
  [created : {<<1, 2, 3, 4, 5, 6, 7, 8>>}, poll_hz : {120000, 333}, chunk_rows : {1024},
   track : {<< >>, <<11, 12>>}, car : {<<13>>},
   sm_version : {<< >>, <<14>>}, ac_version : {<<15, 16>>},
   sessions : {1}, num_cars : {60}, sector_count : {3}, max_rpm : {8000},
   max_torque : {<<21, 22, 23, 24>>}, max_power : {<<25, 26, 27, 28>>},
   max_fuel : {<<31, 32, 33, 34>>}, penalties : {1},
   raw_static : {<< >>, <<41>>, <<42, 43, 44, 45, 46>>}, session_type : {None, 0, 2}]

(* The V1 decoder returns what encode_metadata was given.  A session type  *)
(* without a raw page is lost, because the length that the decoder expects *)
(* before the page is not written then.                                    *)
MetadataIsReadBack ==
  \A m \in SomeMetadata :
    m.raw_static # << >> \/ m.session_type = None =>
      DecodeMetadata(EncodeMetadata(m)) = m
=============================================================================
