--------------------------- MODULE TelemetryColumns ---------------------------
(***************************************************************************)
(* What a telemetry frame consists of (types.rs): nine samples, each a     *)
(* sequence of fields.  The file formats turn fields into columns and back *)
(* (ChunkColumns, GroupColumns).  A field is its name, how many values it  *)
(* has (lanes) and how wide one of them is.                                *)
(***************************************************************************)
EXTENDS Integers, Sequences

Fields(names, kind, lanes, width) ==
  [k \in 1..Len(names) |->
     [name |-> names[k], kind |-> kind, lanes |-> lanes, width |-> width]]

Stamps == Fields(<<"sample_tick", "timestamp_ns">>, "number", 1, 8)
Words(names) == Fields(names, "number", 1, 4)
Floats(lanes, names) == Fields(names, "array", lanes, 4)
Text(lanes, names) == Fields(names, "text", lanes, 2)
Vector(lanes, names) == Fields(names, "vector", lanes, 4)  \* as long as the game fills it

ControlSample ==
  Stamps \o Words(<<"physics_packet_id", "graphics_packet_id", "speed_kmh",
       "gas", "brake", "clutch", "steer_angle", "gear", "rpms", "fuel">>)

MotionSample ==
  Stamps \o Floats(3, <<"velocity", "acc_g", "local_velocity",
       "local_angular_vel">>)
  \o Words(<<"heading", "pitch", "roll">>)

TyreSample ==
  Stamps \o Floats(4, <<"wheel_slip", "wheel_load", "wheels_pressure",
       "wheel_angular_speed", "tyre_wear", "tyre_dirty_level",
       "tyre_core_temperature", "camber_rad", "suspension_travel",
       "slip_ratio", "slip_angle", "tyre_temp_i", "tyre_temp_m",
       "tyre_temp_o", "tyre_temp", "mz", "fx", "fy", "suspension_damage",
       "brake_temp", "brake_pressure", "pad_life", "disc_life">>)
  \o Floats(12, <<"tyre_contact_point", "tyre_contact_normal",
       "tyre_contact_heading">>)
  \o Words(<<"number_of_tyres_out", "front_brake_compound",
       "rear_brake_compound">>)

PowertrainSample ==
  Stamps \o Words(<<"turbo_boost", "ballast", "kers_charge", "kers_input",
       "kers_current_kj", "drs", "tc", "abs", "engine_brake",
       "ers_recovery_level", "ers_power_level", "ers_heat_charging",
       "ers_is_charging", "drs_available", "drs_enabled", "tc_in_action",
       "abs_in_action", "auto_shifter_on", "current_max_rpm",
       "p2p_activations", "p2p_status", "water_temp">>)

SessionSample ==
  Stamps \o Words(<<"status", "session", "session_index", "completed_laps",
       "position", "session_time_left", "number_of_laps",
       "current_sector_index", "normalized_car_position", "is_in_pit",
       "is_in_pit_lane", "mandatory_pit_done", "missing_mandatory_pits",
       "penalty_time", "penalty_type">>)
  \o Text(33, <<"track_status">>)
  \o Words(<<"clock", "replay_time_multiplier", "is_valid_lap",
       "global_yellow", "global_yellow1", "global_yellow2",
       "global_yellow3", "global_white", "global_green",
       "global_chequered", "global_red", "gap_ahead_or_tail_value",
       "flag", "gap_behind">>)

TimingSample ==
  Stamps \o Words(<<"i_current_time", "i_last_time", "i_best_time", "i_split",
       "last_sector_time", "i_delta_lap_time", "is_delta_positive",
       "i_estimated_lap_time", "fuel_estimated_laps", "fuel_x_lap",
       "used_fuel", "distance_traveled">>)
  \o Text(15, <<"current_time_str", "last_time_str", "best_time_str",
       "split_str", "delta_lap_time_str", "estimated_lap_time_str">>)
  \o Words(<<"observed_slot_before_i_split">>)

CarStateSample ==
  Stamps \o Floats(5, <<"car_damage">>)
  \o Words(<<"pit_limiter_on">>)
  \o Floats(2, <<"ride_height">>)
  \o Words(<<"ignition_on", "starter_engine_on", "is_engine_running",
       "is_ai_controlled", "cg_height", "brake_bias", "rain_lights",
       "flashing_lights", "lights_stage", "wiper_lv",
       "driver_stint_total_time_left", "driver_stint_time_left",
       "rain_tyres", "current_tyre_set", "strategy_tyre_set",
       "track_grip_status">>)
  \o Text(33, <<"tyre_compound_str">>)
  \o Words(<<"mfd_tyre_set", "mfd_fuel_to_add">>)
  \o Floats(4, <<"mfd_tyre_pressure">>)
  \o Words(<<"ideal_line_on", "is_setup_menu_visible",
       "main_display_index", "secondary_display_index",
       "direction_lights_left", "direction_lights_right", "tc_level",
       "tc_cut", "engine_map", "abs_level", "exhaust_temperature",
       "final_ff", "performance_meter", "kerb_vibration",
       "slip_vibrations", "g_vibrations", "abs_vibrations">>)

EnvironmentSample ==
  Stamps \o Words(<<"air_density", "air_temp", "road_temp", "wind_speed",
       "wind_direction", "surface_grip", "rain_intensity",
       "rain_intensity_in_10min", "rain_intensity_in_30min">>)

OtherCarsSample ==
  Stamps \o Words(<<"active_cars", "player_car_id">>)
  \o Vector(180, <<"car_coordinates">>) \o Vector(60, <<"car_id">>)

Sample ==
  [controls    |-> ControlSample,    motion      |-> MotionSample,
   tyres       |-> TyreSample,       powertrain  |-> PowertrainSample,
   session     |-> SessionSample,    timing      |-> TimingSample,
   car_state   |-> CarStateSample,   environment |-> EnvironmentSample,
   other_cars  |-> OtherCarsSample]

FrameClusters == DOMAIN Sample
FieldsOf(c) == DOMAIN Sample[c]

(* Tables aligned with a sample's fields are written with these.           *)
Ids(first, last) == [k \in 1..(last - first + 1) |-> first + k - 1]
Times(n, v) == [k \in 1..n |-> v]

(* raw_field_names, and raw_field_value, which answers for these and for   *)
(* nothing else: numbers, and the elements of arrays.  Item <<c, k, i>> is *)
(* written "c.name" or "c.name[i]".                                        *)
RawFieldNames(c) ==
  {<<c, k, 0>> : k \in {k \in FieldsOf(c) : Sample[c][k].kind = "number"}}
  \cup UNION {{<<c, k, i>> : i \in 1..Sample[c][k].lanes} :
               k \in {k \in FieldsOf(c) : Sample[c][k].kind = "array"}}

AllRawItems == UNION {RawFieldNames(c) : c \in FrameClusters}
=============================================================================
