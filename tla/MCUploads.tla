------------------------------ MODULE MCUploads ------------------------------
(***************************************************************************)
(* Instances of Uploads for TLC.                                            *)
(***************************************************************************)
EXTENDS Uploads

Body(kind, size, valid, entries) ==
    [NoBody EXCEPT !.kind = kind, !.size = size, !.valid = valid,
                   !.entries = entries]

\* Files within the limit and beyond it; an archive of each shape; the demo
\* corpus, in two writes, and a request for its path.
MCBodies ==
    {Body("file", 2, TRUE, <<>>), Body("file", 3, TRUE, <<>>),
     Body("file", 1, FALSE, <<>>),
     Body("archive", 3, TRUE, <<"resume">>), Body("archive", 1, TRUE, <<>>),
     Body("archive", 1, TRUE, <<"other", "other">>),
     Body("archive", 1, TRUE, <<"resume", "other", "resume", "resume">>),
     Body("archive", 1, TRUE, <<"resume", "broken", "resume">>),
     Body("archive", 1, TRUE, <<"resume", "resume", "other", "other", "other">>),
     Body("demo", 2, TRUE, <<>>), Body("path", 0, TRUE, <<>>),
     [Body("path", 0, TRUE, <<>>) EXCEPT !.path = <<0, 1>>]}
=============================================================================
