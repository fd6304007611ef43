----------------------------- MODULE MCPipeline -----------------------------
(* Instances of the pipeline for TLC.  The configurations choose what L2    *)
(* watches: the availability reporters, the comparison of the two           *)
(* estimates, or the VRPN stream.                                           *)
EXTENDS PipelineProperties

WatchAvailability == <<"local_position", "geofence">>
AvailabilityCaps == <<ERROR, ERROR>>
WatchAgreement == <<"local_position", "consistency">>
AgreementCaps == <<ERROR, ERROR>>
WatchStream == <<"pure stream">>
StreamCaps == <<WARN>>

OneAxis == <<"x">>
TwoAxes == <<"x", "y">>
MCLo == [x |-> 0, y |-> 0]
MCHi == [x |-> 4, y |-> 4]
OnePlace == {[x |-> 2]}
TwoPlaces == {[x |-> 2], [x |-> 3]}
InsideAndOutside == {[x |-> 2, y |-> 2], [x |-> 5, y |-> 2]}
=============================================================================
