---------------------------- MODULE MCJobPipeline ----------------------------
(***************************************************************************)
(* Instances of JobPipeline for TLC.                                       *)
(***************************************************************************)
EXTENDS JobPipeline, TLC

CONSTANTS a, b, c, w1, w2, r1, r2, s1, s2

TwoFiles == <<a, b>>
ThreeFiles == <<a, b, c>>

(* With batches of two: a full and a short batch; a full batch that COPY   *)
(* refuses, before a read that fails for ever; a file that is the          *)
(* beginning of the first and has its checksum.                            *)
FilesToStore ==
  (a :> <<"ip", "corrupt", "ip", "ip">>) @@ (b :> <<"ip", "longname", "ioerr">>)
    @@ (c :> <<"ip", "corrupt", "ip">>)

(* A full batch, and one that is refused; a batch that is never filled nor *)
(* sent.                                                                   *)
FilesToEnd == (a :> <<"ip", "ip", "nonip">>) @@ (b :> <<"ip", "ioerr">>)

Different == (a :> 1) @@ (b :> 2)
FirstAndLastAlike == (a :> 1) @@ (b :> 2) @@ (c :> 1)

AnyOrder == Permutations({w1, w2}) \union Permutations({r1, r2})
              \union Permutations({s1, s2})

-----------------------------------------------------------------------------
(* go-sniffer/README.md:191 lists FAILED among the statuses that a client  *)
(* polls for, and saver.go:57 sets it when a batch could not be written.   *)
(* ProcessWithPool (workerpools.go:89) writes COMPLETED over it.           *)
FailedIsFinal == [][status = "FAILED" => status' = "FAILED"]_status
=============================================================================
