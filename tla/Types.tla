------------------------------- MODULE Types -------------------------------
(***************************************************************************)
(* The data types and groups of src/common/Types.cpp.  kTable is the one   *)
(* place that says which group a type belongs to.                          *)
(***************************************************************************)
EXTENDS Sequences, FiniteSets

CONSTANT DataTypes        \* the types clients ask for, some of kTable's

\* kTable: the members of each group.
Visual2D == {"stereo_image", "depth_map"}
Visual3D == {"point_cloud", "disparity_map", "confidence_map"}
SensorData == {"imu", "temperature", "magnetometer", "barometer"}

ASSUME DataTypesAssumption == DataTypes \subseteq Visual2D \cup Visual3D \cup SensorData

\* data_type_to_group.
DataTypeToGroup == [t \in DataTypes |-> IF t \in Visual2D THEN "visual_2d"
                                        ELSE IF t \in Visual3D THEN "visual_3d"
                                        ELSE "sensor_data"]

\* The groups in the order in which every sweep over them goes.
GroupOrder == <<"visual_2d", "visual_3d", "sensor_data">>

Groups == {"visual_2d", "visual_3d", "sensor_data"}

\* group_members, of the types in use.
GroupMembers(g) == {t \in DataTypes : DataTypeToGroup[t] = g}
=============================================================================
