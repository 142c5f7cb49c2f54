----------------------------- MODULE Negotiation -----------------------------
(***************************************************************************)
(* Encoding and framing of one response in cache_center.c.                 *)
(*                                                                         *)
(* cnt_fetchbody turns the hints vcl_fetch left in the busyobj (do_gzip,   *)
(* do_gunzip, do_esi, do_stream) and the backend's Content-Encoding into   *)
(* a body filter (vfp), the stored object's Content-Encoding header and    *)
(* its `gziped' flag; cnt_prepresp then turns the object, the busyobj and  *)
(* the client request into the response mode res_mode (RES_LEN,           *)
(* RES_CHUNKED, RES_EOF, RES_ESI, RES_ESI_CHILD, RES_GUNZIP).  A response *)
(* served from the cache (a hit) reaches cnt_prepresp with no busyobj.     *)
(*                                                                         *)
(* The inputs are chosen in Init and kept: the request (`req'), VCL's      *)
(* hints (`hint'), the backend's header (`beresp_ce') and whether          *)
(* FetchHdr saw a Content-Length (`hcl').  Encodings are abstracted to     *)
(* gzip, plain and other.                                                  *)
(***************************************************************************)
EXTENDS Naturals, FiniteSets

CONSTANT NoBusy      \* wrk->busyobj == NULL

VARIABLES
    step,        \* fetchbody, prepresp, deliver, streambody
    req,         \* the client request and the parameters
    hint,        \* the busyobj flags as vcl_fetch left them
    beresp_ce,   \* backend Content-Encoding: gzip, absent, other
    hcl,         \* wrk->h_content_length != NULL after FetchHdr
    bo,          \* wrk->busyobj: NoBusy or its flags and filter
    objce,       \* the stored object's Content-Encoding header
    gziped,      \* obj->gziped
    body,        \* the encoding of the stored bytes
    esidata,     \* obj->esidata != NULL
    objlen0,     \* obj->len == 0 when cnt_prepresp runs
    res_mode,
    doclose

vars == <<step, req, hint, beresp_ce, hcl, bo, objce, gziped, body,
          esidata, objlen0, res_mode, doclose>>

CEs == {"gzip", "absent", "other"}
Bodies == {"gzip", "plain", "other"}
Filters == {"none", "esi", "gunzip", "gzip", "testgzip"}
Framing == {"LEN", "CHUNKED", "EOF"}

\* The bytes as the backend sends them, and the header naming an encoding.
BodyOf(ce) == CASE ce = "gzip" -> "gzip" [] ce = "absent" -> "plain" [] OTHER -> "other"
CEOf(b) == CASE b = "gzip" -> "gzip" [] b = "plain" -> "absent" [] OTHER -> "other"

\* Requests: http_gzip_support, esi_level > 0, wantbody (not HEAD), an
\* RFC2616_Req_Gzip client, protover >= 11, disable_esi, and a 200 whose
\* conditional headers allow a 304 (RFC2616_Do_Cond).
Requests ==
    [support : BOOLEAN, esichild : BOOLEAN, wantbody : BOOLEAN, clientgzip : BOOLEAN,
     proto11 : BOOLEAN, disable_esi : BOOLEAN, cond304 : BOOLEAN]

Hints == [do_gzip : BOOLEAN, do_gunzip : BOOLEAN, do_esi : BOOLEAN, do_stream : BOOLEAN]

NoHint == [do_gzip |-> FALSE, do_gunzip |-> FALSE, do_esi |-> FALSE, do_stream |-> FALSE]

\* A miss or pass enters cnt_fetchbody with VCL's hints in the busyobj; a
\* hit enters cnt_prepresp with a cached object (written by an earlier
\* cnt_fetchbody) and no busyobj.
Init ==
    /\ req \in Requests
    /\ res_mode = {}
    /\ doclose = FALSE
    /\ \/ /\ step = "fetchbody"
          /\ hint \in Hints /\ beresp_ce \in CEs /\ hcl \in BOOLEAN
          /\ bo = [do_gzip |-> hint.do_gzip, do_gunzip |-> hint.do_gunzip, do_esi |-> hint.do_esi,
                   do_stream |-> hint.do_stream, is_gzip |-> FALSE, vfp |-> "none"]
          /\ body = BodyOf(beresp_ce) /\ objce = beresp_ce /\ gziped = FALSE
          /\ esidata = FALSE /\ objlen0 = FALSE
       \/ /\ step = "prepresp"
          /\ hint = NoHint /\ beresp_ce = "absent" /\ hcl = FALSE /\ bo = NoBusy
          /\ body \in Bodies /\ objce = CEOf(body) /\ gziped = (body = "gzip")
          /\ esidata \in BOOLEAN /\ objlen0 \in BOOLEAN


\* What a body filter stores, given the bytes the backend sends.  vfp_esi
\* "handles gzip/gunzip itself": it (un)compresses as the flags ask.
FilterOut(vfp, b, in) ==
    CASE vfp = "gunzip" -> "plain"
      [] vfp = "gzip" -> "gzip"
      [] vfp = "esi" /\ b.do_gunzip -> "plain"
      [] vfp = "esi" /\ b.do_gzip -> "gzip"
      [] OTHER -> in

\* The filter choice, in the code's order: ESI, gunzip, gzip, test-gzip.
ChooseVfp(b) ==
    CASE b.do_esi -> "esi"
      [] b.do_gunzip -> "gunzip"
      [] b.do_gzip -> "gzip"
      [] b.is_gzip -> "testgzip"
      [] OTHER -> "none"

\* "We won't gunzip unless it is gzip'ed"; nothing without
\* http_gzip_support.
NegotiateGunzip_untested == req.support /\ bo.do_gunzip

NegotiateGunzip == req.support /\ bo.do_gunzip /\ beresp_ce = "gzip"

\* "We wont gzip unless it is ungziped".
NegotiateGzip == req.support /\ bo.do_gzip /\ beresp_ce = "absent"

\* Mutant: the Content-Encoding header is not removed on gunzip.
StoredCE_keep(gu, gz) == IF gz THEN "gzip" ELSE beresp_ce

\* http_Unset on gunzip, http_SetHeader on gzip.
StoredCE(gu, gz) == CASE gu -> "absent" [] gz -> "gzip" [] OTHER -> beresp_ce

ObjGziped(isgz, gz, gu) == gz \/ (isgz /\ ~gu)

\* do_stream survives unless ESI (own or a parent's), HEAD, or a 304 that
\* RFC2616_Do_Cond can answer, "we don't bother streaming".
DoStream(b) == b.do_stream /\ ~b.do_esi /\ ~req.esichild /\ req.wantbody /\ ~req.cond304

\* The encoding part of cnt_fetchbody, from the pass test to the choice
\* of streaming: the hints are negotiated, the header is removed or added
\* to match, the filter is chosen, obj->gziped is set, and streaming is
\* turned off for ESI, HEAD and a possible 304.
cnt_fetchbody ==
    /\ step = "fetchbody"
    /\ LET is_gzip == beresp_ce = "gzip"
           do_gunzip == NegotiateGunzip
           do_gzip == NegotiateGzip
           b1 == [bo EXCEPT !.do_gzip = do_gzip, !.do_gunzip = do_gunzip,
                            !.is_gzip = is_gzip]
           b2 == [b1 EXCEPT !.vfp = ChooseVfp(b1), !.do_stream = DoStream(b1)]
       IN /\ bo' = b2
          /\ objce' = StoredCE(do_gunzip, do_gzip)
          /\ gziped' = ObjGziped(is_gzip, do_gzip, do_gunzip)
          /\ body' = FilterOut(b2.vfp, b2, BodyOf(beresp_ce))
          /\ esidata' \in IF b2.do_esi THEN BOOLEAN ELSE {FALSE}
          \* a streamed object is still empty when cnt_prepresp runs
          /\ objlen0' \in IF b2.do_stream THEN {TRUE} ELSE BOOLEAN
    /\ step' = "prepresp"
    /\ UNCHANGED <<req, hint, beresp_ce, hcl, res_mode, doclose>>

Streaming == bo # NoBusy /\ bo.do_stream

\* Mutant: the final choice is made even when a framing is already set.
FinalFraming_always(m) ==
    IF objlen0 /\ ~Streaming THEN m \cup {"LEN"}
    ELSE IF ~req.wantbody THEN m
    ELSE IF req.proto11 THEN m \cup {"CHUNKED"}
    ELSE m \cup {"EOF"}

\* Mutant: an empty object gets RES_LEN even while it is being streamed.
FinalFraming_stream_len0(m) ==
    IF m \cap Framing # {} THEN m
    ELSE IF objlen0 THEN m \cup {"LEN"}
    ELSE IF ~req.wantbody THEN m
    ELSE IF req.proto11 THEN m \cup {"CHUNKED"}
    ELSE m \cup {"EOF"}

\* No framing chosen yet: an empty, complete object has length 0, a HEAD
\* needs none, HTTP/1.1 gets chunked, HTTP/1.0 reads until EOF.
FinalFraming(m) ==
    IF m \cap Framing # {} THEN m
    ELSE IF objlen0 /\ ~Streaming THEN m \cup {"LEN"}
    ELSE IF ~req.wantbody THEN m
    ELSE IF req.proto11 THEN m \cup {"CHUNKED"}
    ELSE m \cup {"EOF"}

\* cnt_prepresp's res_mode, bit by bit in the code's order.  h is
\* wrk->h_content_length != NULL: cnt_fetchbody clears it (883) unless the
\* body is streamed.
ResMode(h) ==
    LET m0 == IF \/ bo = NoBusy
                 \/ (h \/ ~bo.do_stream) /\ ~bo.do_gzip /\ ~bo.do_gunzip
              THEN {"LEN"} ELSE {}
        m1 == IF ~req.disable_esi /\ esidata THEN (m0 \ {"LEN"}) \cup {"ESI"} ELSE m0
        m2 == IF req.esichild THEN (m1 \ {"LEN"}) \cup {"ESI_CHILD"} ELSE m1
        m3 == IF req.support /\ gziped /\ ~req.clientgzip
              THEN (m2 \ {"LEN"}) \cup {"GUNZIP"} ELSE m2
    IN FinalFraming(m3)

\* cnt_prepresp up to vcl_deliver returning deliver: the response mode;
\* EOF mode closes the connection; a streamed body goes to streambody.
cnt_prepresp ==
    /\ step = "prepresp"
    /\ res_mode' = ResMode(hcl /\ Streaming)
    /\ doclose' = (doclose \/ "EOF" \in res_mode')
    /\ step' = IF Streaming THEN "streambody" ELSE "deliver"
    /\ UNCHANGED <<req, hint, beresp_ce, hcl, bo, objce, gziped, body, esidata, objlen0>>

Next == cnt_fetchbody \/ cnt_prepresp

Spec == Init /\ [][Next]_vars

-----------------------------------------------------------------------------
(***************************************************************************)
(* Properties.                                                             *)
(***************************************************************************)

Sent == step \in {"deliver", "streambody"}

\* The spec's table for fetchbody: backend Content-Encoding and the hints
\* give the filter and the stored encoding ("as-is" for other encodings).
SpecFilter(ce, gunzipHint, gzipHint) ==
    CASE ce = "gzip" /\ gunzipHint -> <<"gunzip", "plain">>
      [] ce = "gzip" -> <<"testgzip", "gzip">>
      [] ce = "absent" /\ gzipHint -> <<"gzip", "gzip">>
      [] ce = "absent" -> <<"none", "plain">>
      [] OTHER -> <<"none", "other">>

\* With gzip support on and no ESI, the filter cnt_fetchbody installs and
\* the encoding it stores are the ones in the spec's table, for every
\* combination of backend header and vcl_fetch hints.
FilterMatchesTable ==
    step # "fetchbody" /\ bo # NoBusy /\ req.support /\ ~hint.do_esi
        => <<bo.vfp, body>> = SpecFilter(beresp_ce, hint.do_gunzip, hint.do_gzip)

\* The stored object describes its bytes: obj->gziped (set at 830 from
\* the flags) and its Content-Encoding header (unset or added at 750-762)
\* both agree with what the filter actually stored.
ObjectDescribesBody ==
    step # "fetchbody" => gziped = (body = "gzip") /\ objce = CEOf(body)

\* A Content-Length is only sent when the number of bytes that follow is
\* known: the complete object when not streaming (unless ESI or gunzip at
\* delivery changes it and it is not empty), and when streaming, the
\* backend's Content-Length of bytes the filter passes through unchanged.
LengthTrue ==
    Sent /\ "LEN" \in res_mode =>
        LET transformed == res_mode \cap {"ESI", "ESI_CHILD", "GUNZIP"} # {}
        IN IF Streaming
           THEN hcl /\ bo.vfp \in {"none", "testgzip"} /\ ~transformed
           ELSE objlen0 \/ ~transformed

\* Spec: RES_LEN, RES_CHUNKED and RES_EOF are mutually exclusive, a body
\* sent has one of them (EOF closing the connection), and RES_GUNZIP
\* implies the object was stored gzipped.
FramingSound ==
    Sent =>
        /\ Cardinality(res_mode \cap Framing) <= 1
        /\ req.wantbody => Cardinality(res_mode \cap Framing) = 1
        /\ "EOF" \in res_mode => doclose
        /\ "GUNZIP" \in res_mode => body = "gzip"

=============================================================================
