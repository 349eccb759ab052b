--------------------------- MODULE MCGatewayStreamer ---------------------------
(***************************************************************************)
(* A small instance of GatewayStreamer: replies of one to six units, read  *)
(* one or two at a time, so that headers come in one piece or in two, with *)
(* and without the beginning of the body; one body that overflows both the *)
(* client buffer and the copy for the cache; a product in two encodings;   *)
(* and an ETag that changes between the query and the content request.     *)
(***************************************************************************)
EXTENDS GatewayStreamer

CONSTANTS e1, e2, noEtag, noBuffer

MCETags     == {e1, e2}
MCEncodings == {"", "gzip"}

Reply(bytes, head, etag, enc, storable) ==
  [bytes |-> bytes, head |-> head, garbled |-> FALSE,
   etag |-> etag, enc |-> enc, storable |-> storable]

Garbled == [bytes |-> <<"junk">>, head |-> 1, garbled |-> TRUE,
            etag |-> noEtag, enc |-> "", storable |-> FALSE]
Denial  == Reply(<<"503", "shutdown">>, 2, noEtag, "", FALSE)
Passed  == Reply(<<"200", "p1", "p2", "p3">>, 1, noEtag, "", FALSE)
Tag1    == Reply(<<"204", "etag: e1">>, 2, e1, "", FALSE)

Large   == Reply(<<"200", "etag: e1", "x1", "x2", "x3", "x4">>, 2, e1, "", TRUE)
Zipped  == Reply(<<"200", "etag: e1, gzip", "z1">>, 2, e1, "gzip", TRUE)
Newer   == Reply(<<"200", "etag: e2", "n1">>, 2, e2, "", TRUE)
NotOk   == Reply(<<"404", "etag: e1">>, 1, e1, "", FALSE)
NoTag   == Reply(<<"200", "u1">>, 1, noEtag, "", FALSE)

MCCacheReplies   == {Garbled, Denial, Passed, Tag1}
MCContentReplies == {Garbled, Denial, Large, Zipped, Newer, NotOk, NoTag}

MCDenialLines == {"503"}
MCCachedHead  == "200, from cache"
MCBytes == {"junk", "503", "shutdown", "200", "p1", "p2", "p3", "204",
            "etag: e1", "x1", "x2", "x3", "x4", "etag: e1, gzip", "z1",
            "etag: e2", "n1", "404", "u1", MCCachedHead}

=============================================================================
