---------------------------- MODULE FileConverter ----------------------------
(***************************************************************************)
(* acctlm-to-acctlm2: read a V1 file, put its samples together to frames,  *)
(* write them to a V2 file and compare some fields of what is read back.   *)
(*                                                                         *)
(* The file that is converted is a ChunkReader's, at any moment of its     *)
(* life.  The V2 file is finished and so holds every frame written to it   *)
(* (RowGroupFile); its columns are GroupColumns'.                          *)
(***************************************************************************)
EXTENDS ChunkReader, ChunkColumns, GroupColumns, MetadataBlock

(* The converter reads each cluster, gives up if one cannot be read, and   *)
(* refuses a file whose clusters differ in length.                         *)
Accepts_AnyLength ==  \* Mutant: lengths are not compared.
  Opens /\ \A c \in ToSet(Clusters) : ~ClusterFails(c)

Accepts ==
  /\ Opens
  /\ \A c \in ToSet(Clusters) :
       ~ClusterFails(c) /\ Len(ReadAll(c)) = Len(ReadAll(Controls))

(* The frames it writes; here, one column of them.                         *)
ConvertedColumn(c) == ReadAll(c)

(* The metadata the V2 file is created with, and what its reader returns.  *)
ConvertedMetadata(m) == DecodeMetadata(EncodeMetadata(m))
MetadataRead(m) == DecodeMetadataV2(EncodeMetadata(ConvertedMetadata(m)))

-----------------------------------------------------------------------------
(* Properties.                                                             *)

(* A converted file holds the first frames of the recording, every sample  *)
(* beside the others of its frame: the converter puts them together by     *)
(* their places, so a file cut within a group of chunks must be refused.   *)
(* A finished recording is accepted.                                       *)
ConversionKeepsFrames ==
  /\ Accepts /\ ~Damaged =>
       \A c \in ToSet(Clusters) : ConvertedColumn(c) = SubSeq(written, 1, Durable)
  /\ HasFooter => Accepts

(* What is read from a file is, field by field, what was written to it:    *)
(* the tables of both formats agree (ChunksAreReadBack, GroupsAreReadBack, *)
(* ItemsHaveColumns), and so do encoder and decoder of the metadata.       *)
FieldsAreReadBack ==
  FramesReadable =>
    ChunksAreReadBack /\ GroupsAreReadBack /\ ItemsHaveColumns /\ MetadataIsReadBack

(* bin/acctlm-to-acctlm2.rs:1 says: losslessly convert.  Every field of a  *)
(* converted frame, and the metadata, is read back as it was in the V1     *)
(* file.                                                                   *)
ConversionIsLossless ==
  Accepts /\ ReadAll(Controls) # << >> =>
    /\ \A c \in FrameClusters : \A k \in FieldsOf(c) : RebuiltFrom(c, k, RowsOfColumn, 1)
    /\ \A m \in SomeMetadata : MetadataRead(m) = ConvertedMetadata(m)
=============================================================================
