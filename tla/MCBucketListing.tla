-------------------------- MODULE MCBucketListing ---------------------------
(***************************************************************************)
(* BucketListing for TLC: the ways to write one directory, a bucket with   *)
(* an archive in a subdirectory, a note, and a request next to the         *)
(* directory.                                                              *)
(***************************************************************************)
EXTENDS BucketListing

MCTokenOrder ==
  <<".ddns.json", ".txt", "/", "alpha", "archive", "ddns", "notes", "zeta">>

MCDirs ==
  {<<"ddns">>, <<"ddns", "/">>, <<"/", "ddns">>, <<"/", "ddns", "/">>}

MCOtherFiles ==
  {<<"ddns", "/", "archive", "/", "alpha", ".ddns.json">>,
   <<"ddns", "/", "notes", ".txt">>,
   <<"alpha", ".ddns.json">>}
=============================================================================
