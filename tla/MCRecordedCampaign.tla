------------------------ MODULE MCRecordedCampaign --------------------------
(***************************************************************************)
(* Two paths, captures of one device and of others, and manifests whose    *)
(* trials share them, list one twice or list them out of order.            *)
(***************************************************************************)
EXTENDS RecordedCampaign

Sample(index, at, compute, memory) ==
  [index |-> index, at |-> at, compute |-> compute, memory |-> memory,
   runtime |-> 20000 \div (compute + memory)]

Recording(capture, first, second) ==
  [captureId |-> capture, contractId |-> "contract-gpu-001",
   sessionId |-> "session-gpu-001", device |-> "gpu-a", runtimeProfile |-> "cuda",
   benchmarkProfile |-> "probe-v2", elements |-> 1024, inner |-> 64, warmup |-> 3,
   sound |-> TRUE, samples |-> <<first, second>>]

\* Healthy; hours later, with one sample of two behind the floor; in between,
\* with one sample behind it in each metric
Healthy == Recording(1, Sample(0, 100, 100, 100), Sample(1, 101, 90, 110))
Later == Recording(2, Sample(0, 9000, 80, 100), Sample(1, 9001, 74, 90))
Between == Recording(3, Sample(0, 500, 50, 100), Sample(1, 500, 100, 50))
\* As the first, but colder, of another device, of another session, or with a
\* clock that went back
Colder == [Healthy EXCEPT !.captureId = 4, !.warmup = 0]
Foreign == [Healthy EXCEPT !.captureId = 5, !.device = "gpu-b"]
OtherSession == [Healthy EXCEPT !.captureId = 6, !.sessionId = "session-gpu-002"]
Backwards == [Healthy EXCEPT !.captureId = 7, !.samples = <<@[2], @[1]>>]

MCPaths == {"a", "b"}
MCRecordings == {Healthy, Later, Between, Colder, Foreign, OtherSession, Backwards}

OnDisk(a, b) == [path \in MCPaths |-> IF path = "a" THEN a ELSE b]

MCDisks ==
  {OnDisk(Healthy, Later), OnDisk(Later, Between), OnDisk(Colder, NoFile)}

\* None, one made before calibrations were bound to a challenge, and good ones
MCCalibrations ==
  {NoFile, UnboundCalibration(<<Healthy>>), Calibration(<<Healthy>>)}

MCCaptureLists == {<<"a">>, <<"a", "b">>, <<"b", "a", "a">>}

Trial(id, truth, paths) == [id |-> id, truth |-> truth, paths |-> paths]

\* The last two are refused
MCManifests ==
  {[floor |-> 80, trials |-> <<Trial("t1", "COMPLIANT", <<"a">>), Trial("t2", "BREACH", <<"b">>)>>],
   [floor |-> 80, trials |-> <<Trial("t1", "BREACH", <<"b", "a">>), Trial("t2", "COMPLIANT", <<"a", "a">>)>>],
   [floor |-> 80, trials |-> <<Trial("t1", "BREACH", <<"a">>), Trial("t2", "BREACH", <<"b">>)>>],
   [floor |-> 80, trials |-> <<Trial("t1", "BREACH", <<"a">>), Trial("t1", "COMPLIANT", <<"b">>)>>]}
=============================================================================
