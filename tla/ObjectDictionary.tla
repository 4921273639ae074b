-------------------------- MODULE ObjectDictionary --------------------------
(***************************************************************************)
(* The telemetry objects 0x4000 to 0x4007 of the object dictionary         *)
(* (src/objdict/CO_OD.c, CO_OD.h) and the frames they are sent in: a TPDO  *)
(* carries mapped entries, each a subindex of an object in so many bits.   *)
(* A field is its object and its component.                                *)
(***************************************************************************)
EXTENDS Naturals, Sequences

Entries(bits, names) == [sub \in 1 .. Len(names) |-> [name |-> names[sub], bits |-> bits]]

(* The objects by their index, 0x4000 and on.                              *)
Objects == <<"gyro", "accel", "temp", "mag0", "mag1", "mag2", "mag3", "coil">>

(* The entries of an object by subindex; 0x4002 is a single value.         *)
Record(object) ==
  CASE object = "temp" -> Entries(8, <<"temp">>)
    [] object = "coil" ->
         Entries(32, <<"current_x", "current_y", "current_z",
                       "current_x_setpoint", "current_y_setpoint", "current_z_setpoint">>)
           \o Entries(16, <<"pwm_x", "pwm_y", "pwm_z">>)
    [] object \in {"gyro", "accel"} -> Entries(16, <<"x", "y", "z", "x_raw", "y_raw", "z_raw">>)
    [] OTHER -> Entries(16, <<"x", "y", "z">>)

TPDOs == 0 .. 9

(* 0x400a ss bb: subindex ss of object a, in bb bits.                      *)
Mapped(a, sub, bits) == [object |-> Objects[a + 1], sub |-> sub, bits |-> bits]

(* A vector a frame, the temperature, the current and duty of each coil.   *)
TpdoMapping(k) ==
  CASE k = 2 -> <<Mapped(2, 1, 8)>>
    [] k < 7 -> <<Mapped(k, 1, 16), Mapped(k, 2, 16), Mapped(k, 3, 16)>>
    [] OTHER -> <<Mapped(7, k - 6, 32), Mapped(7, k, 16)>>

Field(entry) == <<entry.object, Record(entry.object)[entry.sub].name>>

FrameFields(k) == {Field(TpdoMapping(k)[e]) : e \in DOMAIN TpdoMapping(k)}

(* What is mapped is there, in its whole width.                            *)
ASSUME MappingAssumption ==
  \A k \in TPDOs : \A e \in DOMAIN TpdoMapping(k) :
    LET entry == TpdoMapping(k)[e] IN
    /\ entry.sub \in DOMAIN Record(entry.object)
    /\ entry.bits = Record(entry.object)[entry.sub].bits
=============================================================================
