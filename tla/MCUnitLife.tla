----------------------------- MODULE MCUnitLife -----------------------------
(* Settings that are complete, that an older version wrote, and that lack a *)
(* key.                                                                    *)
EXTENDS UnitLife

MCSound ==
  [capture  |-> {CaptureKeys},
   pipeline |-> {PipelineKeys, {"sn", "hue", "sat", "val"}},
   stream   |-> {StreamKeys}]

MCBroken ==
  [capture  |-> {CaptureKeys \ {"config"}},
   pipeline |-> {PipelineKeys \ {"log.fps"}},
   stream   |-> {}]
==============================================================================
