----------------------------- MODULE GroupColumns -----------------------------
(***************************************************************************)
(* The columns of a V2 row group: what writer_v2.rs puts into them and     *)
(* what reader_v2.rs rebuilds a frame from.                                *)
(*                                                                         *)
(* Columns are sorted into groups by their ids (format_v2.rs); the schema  *)
(* and the row groups list them in the same order.  A column holds the     *)
(* values of all rows one after another; how many belong to a row is       *)
(* computed from its length.  Lists are in the order of the sample's       *)
(* fields.                                                                 *)
(***************************************************************************)
EXTENDS TelemetryColumns

(* format_v2::column_group *)
ColumnGroup(id) ==
  CASE id \in 1..4 -> "FrameMeta"
    [] id \in 10..17 \cup 60..81 -> "DriverInputs"
    [] id \in 20..26 -> "VehicleDynamics"
    [] id \in 30..58 -> "Tyres"
    [] id \in 93..94 \cup 96..99 \cup {108} \cup 120..138 -> "Timing"
    [] id \in 90..91 \cup {95} \cup 106..107 \cup 200..208 -> "Environment"
    [] id \in {92} \cup 100..105 \cup 109..119 \cup 150..189 \cup 210..213 -> "ColdStorage"

(* build_default_schema *)
AllIds == 1..4 \cup 10..17 \cup 20..26 \cup 30..58 \cup 60..81 \cup 90..119
          \cup 120..138 \cup 150..189 \cup 200..208 \cup 210..213
SchemaColumns(g) == {id \in AllIds : ColumnGroup(id) = g}

(* extract_column_values: the column of each field; the stamps of a sample *)
(* are those of the frame.  A row's values are the field's lanes.          *)
ColumnOf ==
  [controls    |-> Ids(1, 4) \o Ids(10, 17),    motion      |-> Ids(1, 2) \o Ids(20, 26),
   tyres       |-> Ids(1, 2) \o Ids(30, 58),    powertrain  |-> Ids(1, 2) \o Ids(60, 81),
   session     |-> Ids(1, 2) \o Ids(90, 119),   timing      |-> Ids(1, 2) \o Ids(120, 138),
   car_state   |-> Ids(1, 2) \o Ids(150, 189),  environment |-> Ids(1, 2) \o Ids(200, 208),
   other_cars  |-> Ids(1, 2) \o Ids(210, 213)]

Lanes(id) ==
  LET owner == CHOOSE o \in {<<c, k>> : c \in FrameClusters, k \in 1..50} :
                 o[2] \in FieldsOf(o[1]) /\ ColumnOf[o[1]][o[2]] = id
  IN  Sample[owner[1]][owner[2]].lanes

-----------------------------------------------------------------------------
(* build_<cluster>: where a field comes from.  A number is the row's place *)
(* in its column (col_val); an array is the row's share of it (col_bytes), *)
(* of which the first lanes are taken.                                     *)
Val(g, id) == [group |-> g, id |-> id, take |-> 1, kind |-> "val"]
Row(g, id, lanes) == [group |-> g, id |-> id, take |-> lanes, kind |-> "row"]
Zeroed == [group |-> "none", id |-> 0, take |-> 0, kind |-> "zero"]
FrameStamps == <<Val("FrameMeta", 1), Val("FrameMeta", 2)>>

Vals(g, first, last) == [k \in 1..(last - first + 1) |-> Val(g, first + k - 1)]
Rows(g, first, last, lanes) == [k \in 1..(last - first + 1) |-> Row(g, first + k - 1, lanes)]

BuildControls ==
  FrameStamps \o Vals("FrameMeta", 3, 4) \o Vals("DriverInputs", 10, 17)
BuildMotion ==
  FrameStamps \o Rows("VehicleDynamics", 20, 23, 3) \o Vals("VehicleDynamics", 24, 26)
BuildTyres ==
  FrameStamps \o Rows("Tyres", 30, 52, 4) \o Rows("Tyres", 53, 55, 12) \o Vals("Tyres", 56, 58)
BuildPowertrain == FrameStamps \o Vals("DriverInputs", 60, 81)
BuildSession ==
  FrameStamps \o Vals("Environment", 90, 91) \o <<Val("ColdStorage", 92)>>
  \o Vals("Timing", 93, 94) \o <<Val("Environment", 95)>> \o Vals("Timing", 96, 99)
  \o Vals("ColdStorage", 100, 104) \o <<Row("ColdStorage", 105, 33)>>
  \o Vals("Environment", 106, 107) \o <<Val("Timing", 108)>> \o Vals("ColdStorage", 109, 119)
BuildTiming ==
  FrameStamps \o Vals("Timing", 120, 131) \o <<Row("Timing", 132, 15)>>
  \o Times(5, Zeroed) \o <<Val("Timing", 138)>>
BuildCarState ==
  FrameStamps \o <<Row("ColdStorage", 150, 5), Val("ColdStorage", 151),
                   Row("ColdStorage", 152, 2)>>
  \o Vals("ColdStorage", 153, 168) \o <<Row("ColdStorage", 169, 33)>>
  \o Vals("ColdStorage", 170, 171) \o <<Row("ColdStorage", 172, 4)>>
  \o Vals("ColdStorage", 173, 189)
BuildEnvironment == FrameStamps \o Vals("Environment", 200, 208)
BuildOtherCars ==
  FrameStamps \o Vals("ColdStorage", 210, 211)
  \o <<Row("ColdStorage", 212, 180), Row("ColdStorage", 213, 60)>>

Build ==
  [controls    |-> BuildControls,    motion      |-> BuildMotion,
   tyres       |-> BuildTyres,       powertrain  |-> BuildPowertrain,
   session     |-> BuildSession,     timing      |-> BuildTiming,
   car_state   |-> BuildCarState,    environment |-> BuildEnvironment,
   other_cars  |-> BuildOtherCars]

(* The groups that read_<cluster>_range_v2 reads. *)
RangeGroups ==
  [controls    |-> {"FrameMeta", "DriverInputs"},
   motion      |-> {"FrameMeta", "VehicleDynamics"},
   tyres       |-> {"FrameMeta", "Tyres"},
   powertrain  |-> {"FrameMeta", "DriverInputs"},
   session     |-> {"FrameMeta", "Timing", "Environment", "ColdStorage"},
   timing      |-> {"FrameMeta", "Timing"},
   car_state   |-> {"FrameMeta", "ColdStorage"},
   environment |-> {"FrameMeta", "Environment"},
   other_cars  |-> {"FrameMeta", "ColdStorage"}]

(* col_val, col_bytes and extract_bytes_row on a column of n rows: the     *)
(* values they give for row i are those at these places of the column.     *)
Places(source, n, i) ==
  LET share == (n * Lanes(source.id)) \div n
      taken == IF share < source.take THEN share ELSE source.take
  IN  IF source.kind = "val" THEN {i} ELSE {(i - 1) * share + j : j \in 1..taken}

(* Where the writer put the values of row i of a field. *)
OwnPlaces(lanes, i) == ((i - 1) * lanes + 1)..(i * lanes)

(* A frame that is read is the frame that was written: every field comes   *)
(* from the group that its column belongs to, one that the range read of   *)
(* its sample reads too, and from the very values the writer put there.    *)
(* Except for five of the six time texts, which the reader leaves empty.   *)
RebuiltFrom(c, k, n, i) ==
  LET source == Build[c][k]
  IN  /\ source.id = ColumnOf[c][k]
      /\ source.id \in SchemaColumns(source.group)
      /\ source.group \in RangeGroups[c]
      /\ Places(source, n, i) = OwnPlaces(Sample[c][k].lanes, i)

NotRebuilt == {"last_time_str", "best_time_str", "split_str", "delta_lap_time_str",
               "estimated_lap_time_str"}

RowsOfColumn == 2  \* bound: rows of a row group; the places are linear in their number
GroupsAreReadBack ==
  \A c \in FrameClusters : \A k \in FieldsOf(c) : \A i \in 1..RowsOfColumn :
    Sample[c][k].name \notin NotRebuilt => RebuiltFrom(c, k, RowsOfColumn, i)

-----------------------------------------------------------------------------
(* read_item_frames finds the column of an item by the last part of its    *)
(* path.                                                                   *)
PathName(c, k) ==
  CASE ColumnOf[c][k] = 66 -> "tc_physics"
    [] ColumnOf[c][k] = 67 -> "abs_physics"
    [] OTHER -> Sample[c][k].name

PathToColumnId(name) ==
  {ColumnOf[o[1]][o[2]] : o \in {o \in {<<c, k>> : c \in FrameClusters, k \in 1..50} :
                                   o[2] \in FieldsOf(o[1]) /\ PathName(o[1], o[2]) = name}}

(* An item of the catalogue that read_item_frames accepts is read from its *)
(* own column, although only the last part of its path counts.  It refuses *)
(* the elements of arrays, and powertrain.tc and powertrain.abs.           *)
Refused(item) == item[3] # 0 \/ ColumnOf[item[1]][item[2]] \in {66, 67}

ItemsHaveColumns ==
  \A item \in AllRawItems :
    ~Refused(item) =>
      PathToColumnId(Sample[item[1]][item[2]].name) = {ColumnOf[item[1]][item[2]]}
=============================================================================
