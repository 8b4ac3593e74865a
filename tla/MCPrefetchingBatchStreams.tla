-------------------- MODULE MCPrefetchingBatchStreams --------------------
(***************************************************************************)
(* Instances of PrefetchingBatchStreams for TLC: two dojos, schedules of   *)
(* up to three steps that share a prefix, differ in the middle or swap the *)
(* dojos, so a reschedule keeps some, all or none of what is built.        *)
(***************************************************************************)
EXTENDS PrefetchingBatchStreams

CONSTANTS a, b, r1, r2, r3, r4, r5, r6

MCDojos == {a, b}
MCSchedules == {<<a, a, b>>, <<a, b>>, <<b, a>>}
MCFailing == {<<a, 1>>, <<b, 0>>}
MCReservations == {r1, r2, r3, r4, r5, r6}
=============================================================================
