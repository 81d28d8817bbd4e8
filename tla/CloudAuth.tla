------------------------------ MODULE CloudAuth ------------------------------
(***************************************************************************)
(* The client of the key service and of the cloud storage: the requests    *)
(* and reply parsers of CA.c, URLEncode of utils.c, the transfers of       *)
(* cloudstorage.c, and the three callers: backup_action in the loop of     *)
(* backup_service.c, the authentication of recovery.c's                    *)
(* enter_remote_update (which Recovery sees as one outcome), and test of   *)
(* cloudstorage.c.                                                         *)
(*                                                                         *)
(* The servers, the cpk tool and the file system are the environment.  A   *)
(* text is a sequence of characters; a buffer is the C string it holds.    *)
(* A reply of the key service is NoMatch or the groups its regular         *)
(* expression captured.                                                    *)
(***************************************************************************)
EXTENDS Integers, Sequences, FiniteSets, SequencesExt

CONSTANTS
    Raws,           \* what cpk -sign may leave in .signature
    Randoms,        \* the random numbers the key service may give
    Uids,           \* the user ids of key files and replies
    SIGNATURE,      \* sizeof(signature) and sizeof(ret): 256
    AuthRoom,       \* sizeof(auth) less the fixed words and the terminator: 237
    BUF,            \* sizeof(buf) of the three requests of CA.c: 1024
    MaxFiles,       \* the streams the process may hold at a time
    Bodies,         \* the bodies the cloud may answer with, each the sizes of its parts
    MAX_HTTP_RESPONSE_SIZE,     \* sizeof(curl_memory_chunk.memory): 4096
    MaxRequests     \* bound: requests to the key service in one run

ASSUME /\ SIGNATURE \in Nat \ {0} /\ MaxFiles \in Nat /\ MaxRequests \in Nat
       /\ AuthRoom \in Nat /\ BUF \in Nat \ {0}
       /\ \A raw \in Raws : Len(raw) <= SIGNATURE
       /\ MAX_HTTP_RESPONSE_SIZE \in Nat \ {0} /\ <<>> \in Bodies
       /\ \A body \in Bodies : \A realsize \in ToSet(body) : realsize \in Nat \ {0}

UNKNOWN_ERROR   == -3
CA_FORMAT_ERROR == -2
CA_FALSE        == -1
CA_SUCCESS      == 0
CA_TRUE         == 1
CURLE_OK        == 0
EXIT_FAILURE    == -1           \* the process has ended in exit

NoMatch  == [retCode |-> "no match"]
RetCodes == {"0", "1", "|"}             \* what ([0|1]) captures
Callers  == {"backup_service", "recovery", "test"}

VARIABLES
    caller,         \* the program that runs
    pc,             \* the label or call it is at
    uid, randoms, ret, size, signature,     \* the buffers of the caller
    streams,        \* the streams it holds
    curl_http_response_code,
    requests,       \* history: requests to the key service so far
    given,          \* history: the random number of the last reply that gave one
    signed,         \* history: the text cpk -sign was given last
    verdict,        \* history: the last authentication of this pass
    outside,        \* history: indexes written outside signature, ret and buf
    cloud           \* history: the last transfer, as the cloud and as the caller saw it

vars == <<caller, pc, uid, randoms, ret, size, signature, streams, curl_http_response_code,
          requests, given, signed, verdict, outside, cloud>>

NoVerdict  == [sent |-> <<>>, result |-> CA_FORMAT_ERROR, verify |-> ""]
NoTransfer == [auth |-> <<>>, status |-> 0, complete |-> FALSE, file |-> "kept", result |-> -1]

Init ==
    /\ caller \in Callers /\ pc = "start"
    /\ uid = <<>> /\ randoms = <<>> /\ ret = <<>> /\ size = 0 /\ signature = <<>>
    /\ streams = 0 /\ curl_http_response_code = 0 /\ requests = 0
    /\ given = <<>> /\ signed = <<>> /\ verdict = NoVerdict /\ outside = {} /\ cloud = NoTransfer

-----------------------------------------------------------------------------
(* utils.c.                                                                *)

Alnum   == {"a", "b", "7"}
Escaped == [ch \in {"+", "/", "\n"} |->
               CASE ch = "+" -> <<"%", "2", "B">> [] ch = "/" -> <<"%", "2", "F">>
                 [] ch = "\n" -> <<"%", "0", "A">>]

\* strncpy(buffer, text, strlen(text)): no terminator is written, what the
\* buffer held behind the text stays.
strncpy(buffer, text) == text \o SubSeq(buffer, Len(text) + 1, Len(buffer))

RECURSIVE Encoding(_, _, _, _)
\* URLEncode's for loop from str[i], with `result` written so far: `top` is
\* the highest index written, the terminator's included.
Encoding(str, i, result, resultSize) ==
    IF i > Len(str) \/ Len(result) >= resultSize
    THEN [ret |-> Len(result), result |-> result, top |-> Len(result)]
    ELSE CASE str[i] \in Alnum -> Encoding(str, i + 1, Append(result, str[i]), resultSize)
           [] str[i] = " "     -> Encoding(str, i + 1, Append(result, "+"), resultSize)
           [] OTHER ->
                IF Len(result) + 3 < resultSize
                THEN Encoding(str, i + 1, result \o Escaped[str[i]], resultSize)
                ELSE [ret |-> 0, result |-> result, top |-> Len(result)]

\* URLEncode (mutant): the loop ends one character early.
URLEncode_one_short(str, strSize, resultSize) ==
    IF strSize <= 0 \/ resultSize <= 0
    THEN [ret |-> 0, result |-> <<>>, top |-> -1]
    ELSE Encoding(SubSeq(str, 1, strSize - 1), 1, <<>>, resultSize)

URLEncode(str, strSize, resultSize) ==
    IF strSize <= 0 \/ resultSize <= 0
    THEN [ret |-> 0, result |-> <<>>, top |-> -1]
    ELSE Encoding(SubSeq(str, 1, strSize), 1, <<>>, resultSize)

\* The encoding of a text for a query: what URLEncode is to compute.
PercentEncoded(str) ==
    FlattenSeq([k \in DOMAIN str |->
                   IF str[k] \in Alnum THEN <<str[k]>>
                   ELSE IF str[k] = " " THEN <<"+">> ELSE Escaped[str[k]]])

\* The caller's "size = URLEncode(...); signature[size - 3] = 0": the text
\* is cut where the index is inside it; an index outside the array is
\* written to all the same.
Encoded(raw, n) ==
    LET e == URLEncode(raw, n, SIGNATURE)
        text == IF e.ret > 0 THEN e.result ELSE strncpy(signature, e.result)
    IN  [text    |-> IF e.ret - 3 \in 0..Len(text) THEN SubSeq(text, 1, e.ret - 3) ELSE text,
         outside |-> {<<"signature", k>> : k \in {e.ret - 3, e.top} \ (0..(SIGNATURE - 1))}]

-----------------------------------------------------------------------------
(* CA.c: the parsers of the replies.                                       *)

checkForRegister(reply) ==
    CASE reply = NoMatch     -> CA_FORMAT_ERROR
      [] reply.retCode = "1" -> CA_FALSE
      [] OTHER               -> CA_SUCCESS

applyForRandom(reply) ==
    CASE reply = NoMatch     -> CA_FORMAT_ERROR
      [] reply.retCode = "0" -> CA_FALSE
      [] OTHER               -> CA_SUCCESS

cpkAuthentication(reply) ==
    CASE reply = NoMatch                 -> CA_FORMAT_ERROR
      [] reply.retCode = "1"             -> CA_FALSE
      [] reply.verifyResult = "success"  -> CA_FALSE
      [] OTHER                           -> CA_TRUE

RegisterReplies == {NoMatch} \union [retCode : RetCodes, UID : Uids]
RandomReplies   == {NoMatch} \union [retCode : RetCodes, randomNumber : Randoms]
VerifyReplies   == {NoMatch} \union [retCode : RetCodes, verifyResult : {"success", "failure"}]

-----------------------------------------------------------------------------
(* The callers up to the signature.                                        *)

At(label)    == pc = label
Is(program)  == caller = program

\* getFileInBuffer: the body of the reply, `length` characters, is copied
\* into the caller's buf and ended there, whatever its length.
getFileInBuffer(length) ==
    outside' = outside \union {<<"buf", k>> : k \in {length} \ (0..(BUF - 1))}

\* A request to the key service, one of MaxRequests.
Ask(length) ==
    requests < MaxRequests /\ requests' = requests + 1 /\ getFileInBuffer(length)

\* The lengths of a reply that the copy tells apart.
Lengths == {BUF - 1, BUF}

\* The pass ends: main of backup_service sleeps and starts again;
\* enter_remote_update goes on to the menu of the update scripts (line 582).
Return == pc' = IF Is("backup_service") THEN "start" ELSE "menu"

\* is_imsi_got: the test for "null" is commented out.
is_imsi_got == TRUE

\* is_priKey_exist: 1 and the uid of the first key file of the IMSI when the
\* directory has one, 0 without one.
is_priKey_exist(exists, id) == [result |-> IF exists THEN 1 ELSE 0,
                                uid    |-> IF exists THEN id ELSE <<>>]

\* Where the two callers go with the result of is_priKey_exist: recovery
\* registers without a key; backup_service asks for a random number when it
\* has none, signs the one of an earlier pass again when it has one, and
\* ends the pass without a key.
AfterStart(found) ==
    CASE found.result = 1 /\ Is("recovery")  -> "GET_PRI"
      [] found.result = 1 /\ randoms = <<>>  -> "APPLY"
      [] found.result = 1                    -> "SIGNATURE"
      [] Is("recovery")                      -> "check_register"
      [] OTHER                               -> "start"

\* backup_action to its first request, and enter_remote_update to line 531:
\* the buffers are cleared (randoms of backup_service is static and is
\* not), and is_priKey_exist looks for the key file of the IMSI.  It gives
\* readdir what opendir returned: without a directory, or a descriptor for
\* it, the process ends there.
Start(opened, exists, id) ==
    /\ At("start") /\ ~Is("test") /\ is_imsi_got
    /\ opened => streams < MaxFiles
    /\ ret' = <<>> /\ signature' = <<>> /\ size' = 0 /\ verdict' = NoVerdict
    /\ uid' = IF opened THEN is_priKey_exist(exists, id).uid ELSE <<>>
    /\ randoms' = IF Is("recovery") THEN <<>> ELSE randoms
    /\ pc' = IF opened THEN AfterStart(is_priKey_exist(exists, id)) ELSE "readdir(NULL)"
    /\ UNCHANGED <<caller, streams, curl_http_response_code, requests, given, signed, outside,
                   cloud>>

\* check_register and save_priKey, whose result nobody looks at.
check_register(reply) ==
    /\ At("check_register") /\ \E length \in Lengths : Ask(length)
    /\ reply \in RegisterReplies
    /\ IF checkForRegister(reply) = CA_SUCCESS
       THEN uid' = strncpy(uid, reply.UID) /\ pc' = "GET_PRI"
       ELSE Return /\ UNCHANGED uid
    /\ UNCHANGED <<caller, randoms, ret, size, signature, streams, curl_http_response_code,
                   given, signed, verdict, cloud>>

\* Lines 536-547: the buffers are cleared, the identity set, the key imported.
GET_PRI ==
    /\ At("GET_PRI")
    /\ ret' = <<>> /\ signature' = <<>> /\ randoms' = <<>>
    /\ pc' = "APPLY"
    /\ UNCHANGED <<caller, uid, size, streams, curl_http_response_code, requests, given,
                   signed, verdict, outside, cloud>>

\* apply_random: the number of the reply is copied over what the buffer holds.
apply_random(reply) ==
    /\ At("APPLY") /\ \E length \in Lengths : Ask(length)
    /\ reply \in RandomReplies
    /\ IF applyForRandom(reply) = CA_SUCCESS
       THEN /\ randoms' = strncpy(randoms, reply.randomNumber)
            /\ given' = reply.randomNumber
            /\ pc' = "SIGNATURE"
       ELSE Return /\ UNCHANGED <<randoms, given>>
    /\ UNCHANGED <<caller, uid, ret, size, signature, streams, curl_http_response_code,
                   signed, verdict, cloud>>

\* backup_action from SIGNATURE to its authentication: the random number is
\* signed, the signature read from a stream that is never closed, and
\* encoded; without a stream fread is given NULL; without a signature the
\* label is taken again.
Sign_backup(raw, opened) ==
    /\ At("SIGNATURE") /\ Is("backup_service")
    /\ raw \in Raws \union {<<>>}
    /\ opened => streams < MaxFiles
    /\ signed' = randoms
    /\ IF ~opened
       THEN pc' = "crashed" /\ UNCHANGED <<ret, size, signature, outside, streams>>
       ELSE /\ streams' = streams + 1
            /\ ret' = strncpy(ret, raw)
            /\ IF raw = <<>>
               THEN UNCHANGED <<pc, size, signature, outside>>
               ELSE /\ size' = URLEncode(raw, Len(raw), SIGNATURE).ret
                    /\ signature' = Encoded(raw, Len(raw)).text
                    /\ outside' = outside \union Encoded(raw, Len(raw)).outside
                    /\ pc' = "authenticate"
    /\ UNCHANGED <<caller, uid, randoms, curl_http_response_code, requests, given, verdict,
                   cloud>>

\* enter_remote_update, lines 551-567: the stream is read when there is
\* one and closed whether there is one or not; ret is ended behind what was
\* read; without a signature the function ends at END, before the menu.
Sign_recovery(raw, opened) ==
    /\ At("SIGNATURE") /\ Is("recovery")
    /\ raw \in Raws \union {<<>>}
    /\ opened => streams < MaxFiles
    /\ signed' = randoms
    /\ IF ~opened
       THEN pc' = "crashed" /\ UNCHANGED <<ret, size, signature, outside>>
       ELSE /\ ret' = raw
            /\ IF raw = <<>>
               THEN pc' = "END" /\ UNCHANGED <<size, signature, outside>>
               ELSE /\ size' = URLEncode(raw, Len(raw), SIGNATURE).ret
                    /\ signature' = Encoded(raw, Len(raw)).text
                    /\ outside' = outside \union Encoded(raw, Len(raw)).outside
                                      \union {<<"ret", k>> : k \in {Len(raw)} \ (0..(SIGNATURE - 1))}
                    /\ pc' = "authenticate"
    /\ UNCHANGED <<caller, uid, randoms, streams, curl_http_response_code, requests, given,
                   verdict, cloud>>

\* cpk_authentication: the key service is asked about the signature given.
cpk_authentication(sent, reply) ==
    /\ At("authenticate") /\ \E length \in Lengths : Ask(length)
    /\ reply \in VerifyReplies
    /\ verdict' = [sent   |-> sent,
                   result |-> cpkAuthentication(reply),
                   verify |-> IF reply = NoMatch THEN "" ELSE reply.verifyResult]
    /\ UNCHANGED <<caller, uid, randoms, ret, size, signature, streams,
                   curl_http_response_code, given, signed, cloud>>

\* backup_action, lines 69-75: it sends ret as it was read, and asks for a
\* new random number when the answer is not CA_TRUE.
authenticate_backup(reply) ==
    /\ Is("backup_service") /\ cpk_authentication(ret, reply)
    /\ pc' = IF cpkAuthentication(reply) = CA_TRUE THEN "UPLOAD" ELSE "APPLY"

\* enter_remote_update, lines 568-571: it sends the encoded signature, and
\* goes on to the menu without the wallpaper when the answer is not CA_TRUE.
authenticate_recovery(reply) ==
    /\ Is("recovery") /\ cpk_authentication(signature, reply)
    /\ pc' = IF cpkAuthentication(reply) = CA_TRUE THEN "update_preference" ELSE "menu"

-----------------------------------------------------------------------------
(* cloudstorage.c.                                                         *)

\* writeMemoryCallback, which curl calls with each part of the body of a
\* response: the part goes behind the ones before it, and the process ends
\* when the parts and a terminator do not fit in curl_memory_chunk.
writeMemoryCallback(held, realsize) ==
    IF held + realsize + 1 > MAX_HTTP_RESPONSE_SIZE THEN EXIT_FAILURE ELSE held + realsize

\* curl_memory_chunk.size after the body of a response, from the 0 that
\* rest and putFile set it to.
Received(body) ==
    FoldLeft(LAMBDA held, realsize :
                 IF held = EXIT_FAILURE THEN held ELSE writeMemoryCallback(held, realsize),
             0, body)

\* curl_easy_perform and curl_easy_getinfo: the response code is the one of
\* the response, 0 without one; curl may fail after the response has begun.
\* A request that is not made leaves the code what it was, and so does one
\* that ends the process.
Performs(made, res, status, body) ==
    /\ IF made THEN res = CURLE_OK => status # 0
               ELSE res # CURLE_OK /\ status = 0
    /\ status = 0 => body = <<>>
    /\ curl_http_response_code' = IF made /\ Received(body) # EXIT_FAILURE
                                  THEN status ELSE curl_http_response_code

\* putFile and getFile return -1 without a request when the local file
\* cannot be opened; rest has no file.  getFile has write_data for the
\* body, the other two writeMemoryCallback.
putFile(opened, res, status, body) == Performs(opened, res, status, body)
getFile(opened, res, status)       == Performs(opened, res, status, <<>>)
rest(res, status, body)            == Performs(TRUE, res, status, body)

\* getFile opens the destination with "wb" before the request, and
\* write_data writes the body of whatever response comes.
write_data(opened, res, status) ==
    CASE ~opened                          -> "kept"
      [] res = CURLE_OK /\ status = 200   -> "downloaded"
      [] OTHER                            -> "damaged"

\* snprintf(auth, sizeof(auth), "Authorization:CPK %s:%s", uid, token) of
\* the three functions below: what the array has room for of the user id,
\* the colon and the token.
Authorization(id, token) ==
    LET text == id \o <<":">> \o token
    IN  SubSeq(text, 1, Min({Len(text), AuthRoom}))

\* What the three functions below return: -1 when curl failed and the
\* response code is not 200.
Returned(auth, res, status, file) ==
    [auth |-> auth, status |-> status, complete |-> res = CURLE_OK, file |-> file,
     result |-> IF res # CURLE_OK /\ curl_http_response_code' # 200 THEN -1 ELSE 0]

\* The process ends inside the request.
Exits(made, body) == made /\ Received(body) = EXIT_FAILURE

\* Where the caller of a request is after it.
After(made, body, label) == IF Exits(made, body) THEN "exit(EXIT_FAILURE)" ELSE label

\* The three functions build the header before the request; a process that
\* ends inside the request has sent it.
uploadLocalFile(opened, id, token, res, status, body) ==
    /\ putFile(opened, res, status, body)
    /\ cloud' = IF Exits(opened, body)
                THEN [cloud EXCEPT !.auth = Authorization(id, token)]
                ELSE Returned(Authorization(id, token), res, status, "kept")

downloadCloudFile(opened, id, token, res, status) ==
    /\ getFile(opened, res, status)
    /\ cloud' = Returned(Authorization(id, token), res, status,
                         write_data(opened, res, status))

deleteCloudFile(id, token, res, status, body) ==
    /\ rest(res, status, body)
    /\ cloud' = IF Exits(TRUE, body)
                THEN [cloud EXCEPT !.auth = Authorization(id, token)]
                ELSE Returned(Authorization(id, token), res, status, "kept")

\* backup_action's UPLOAD (mutant): the upload is given the text that was
\* authenticated, ret.
UPLOAD_with_ret(opened, res, status, body) ==
    /\ At("UPLOAD")
    /\ uploadLocalFile(opened, uid, ret, res, status, body)
    /\ pc' = After(opened, body, "start")
    /\ UNCHANGED <<caller, uid, randoms, ret, size, signature, streams, requests, given,
                   signed, verdict, outside>>

\* backup_action's UPLOAD, lines 82-88, to the end of the pass: the upload
\* is given signature.
UPLOAD(opened, res, status, body) ==
    /\ At("UPLOAD")
    /\ uploadLocalFile(opened, uid, signature, res, status, body)
    /\ pc' = After(opened, body, "start")
    /\ UNCHANGED <<caller, uid, randoms, ret, size, signature, streams, requests, given,
                   signed, verdict, outside>>

\* update_preference of recovery.c: the download into the data partition,
\* which is mounted for it, with the uid and the signature of
\* enter_remote_update.
update_preference(opened, res, status) ==
    /\ At("update_preference")
    /\ downloadCloudFile(opened, uid, signature, res, status)
    /\ Return
    /\ UNCHANGED <<caller, uid, randoms, ret, size, signature, streams, requests, given,
                   signed, verdict, outside>>

\* test: upload, download and delete, one after the other, whatever the
\* one before returned, with the uid and the signature it was called with.
test(opened, res, status, body) ==
    /\ Is("test")
    /\ \/ /\ At("start") /\ uploadLocalFile(opened, uid, signature, res, status, body)
          /\ pc' = After(opened, body, "downloadCloudFile")
       \/ /\ At("downloadCloudFile") /\ body = <<>>
          /\ downloadCloudFile(opened, uid, signature, res, status)
          /\ pc' = "deleteCloudFile"
       \/ /\ At("deleteCloudFile") /\ opened /\ deleteCloudFile(uid, signature, res, status, body)
          /\ pc' = After(TRUE, body, "done")
    /\ UNCHANGED <<caller, uid, randoms, ret, size, signature, streams, requests, given,
                   signed, verdict, outside>>

-----------------------------------------------------------------------------

\* The caller has ended, has crashed, or waits for a key service that the
\* model asks no more.
Ended ==
    /\ pc \in {"done", "menu", "END", "crashed", "readdir(NULL)", "exit(EXIT_FAILURE)"}
           \/ (requests = MaxRequests /\ pc \in {"check_register", "APPLY", "authenticate"})
    /\ UNCHANGED vars

Statuses == {0, 200, 401}

Next ==
    \/ \E opened \in BOOLEAN, exists \in BOOLEAN, id \in Uids : Start(opened, exists, id)
    \/ \E reply \in RegisterReplies : check_register(reply)
    \/ GET_PRI
    \/ \E reply \in RandomReplies : apply_random(reply)
    \/ \E raw \in Raws \union {<<>>}, opened \in BOOLEAN : Sign_backup(raw, opened)
    \/ \E raw \in Raws \union {<<>>}, opened \in BOOLEAN : Sign_recovery(raw, opened)
    \/ \E reply \in VerifyReplies : authenticate_backup(reply)
    \/ \E reply \in VerifyReplies : authenticate_recovery(reply)
    \/ \E opened \in BOOLEAN, res \in {CURLE_OK, 7}, status \in Statuses, body \in Bodies :
           UPLOAD(opened, res, status, body)
    \/ \E opened \in BOOLEAN, res \in {CURLE_OK, 7}, status \in Statuses :
           update_preference(opened, res, status)
    \/ \E opened \in BOOLEAN, res \in {CURLE_OK, 7}, status \in Statuses, body \in Bodies :
           test(opened, res, status, body)
    \/ Ended

Spec == Init /\ [][Next]_vars

-----------------------------------------------------------------------------
(* Properties.                                                             *)

\* URLEncode against the encoding it is to compute: for every signature
\* and every length of it whose encoding fits the buffer with its
\* terminator, URLEncode returns the length of the encoding and has written
\* the encoding, nothing else, and the terminator inside the buffer (the
\* function has no state: it is looked at where a caller starts); and when
\* enter_remote_update asks the key service, size is the length of the
\* encoding of what it read into ret and signature begins that encoding.
EncodesWhatFits ==
    /\ (At("start") /\ requests = 0) =>
           \A raw \in Raws : \A n \in 1..Len(raw), room \in 1..SIGNATURE :
               LET e == URLEncode(raw, n, room)
                   reference == PercentEncoded(SubSeq(raw, 1, n))
               IN  Len(reference) < room =>
                       e.result = reference /\ e.ret = Len(reference) /\ e.top < room
    /\ (Is("recovery") /\ At("authenticate") /\ Len(PercentEncoded(ret)) < SIGNATURE) =>
           /\ size = Len(PercentEncoded(ret))
           /\ signature = SubSeq(PercentEncoded(ret), 1, Len(signature))

\* What a transfer is to carry of the text the key service was asked about:
\* enter_remote_update asks about the encoded signature; backup_action asks
\* about ret, which holds what was read over what an earlier reading of the
\* pass left, and the transfer carries the first size - 3 characters of its
\* encoding.
Carried(sent) ==
    IF Is("recovery") THEN sent ELSE SubSeq(PercentEncoded(sent), 1, size - 3)

\* backup_action's "can update now!" and enter_remote_update's
\* "authentication success": a transfer to or from the cloud is made only
\* when cpk_authentication returned CA_TRUE in this pass, and the header
\* uploadLocalFile and downloadCloudFile build for it is made of the uid and
\* of the signature the key service was asked about, encoded and without
\* its line end - also when the authentication was tried more than once in
\* the pass and ret holds the end of an earlier, longer signature, and in
\* the passes of backup_service that find the random number of an earlier
\* pass and jump to SIGNATURE.  (No array was overrun: that is
\* TerminatorInsideSignature.)
TransfersWhatWasAuthenticated ==
    [][(At("UPLOAD") \/ At("update_preference")) =>
          /\ verdict.result = CA_TRUE
          /\ outside = {} => cloud'.auth = Authorization(uid, Carried(verdict.sent))]_vars

\* "signature[size - 3] = 0" of enter_remote_update and of backup_action
\* cuts the encoded line end off the signature, and "ret[size] = 0" ends
\* what was read: both indexes, and the terminator of URLEncode, are inside
\* the arrays.
TerminatorInsideSignature ==
    \A w \in outside : w[1] = "buf"

\* getFileInBuffer's "buffer[chunk.size] = 0": the reply of the key service
\* and its terminator are inside the buf of the request.
ReplyInsideBuf ==
    \A w \in outside : w[1] # "buf"

\* uploadLocalFile's and downloadCloudFile's "Authorization:CPK %s:%s": the
\* header of a transfer carries the whole of the uid and of the signature.
HeaderCarriesTheToken ==
    [][(outside = {} /\ (At("UPLOAD") \/ At("update_preference"))) =>
          cloud'.auth = uid \o <<":">> \o signature]_vars

\* backup_action's "apply randoms sucess": the text that is signed is the
\* random number the key service gave last.
SignsTheRandomGiven ==
    At("authenticate") => signed = given

\* "authentication success" is printed, and the transfer made, when the key
\* service has verified the signature.
AuthenticatedMeansVerified ==
    verdict.result = CA_TRUE => verdict.verify = "success"

\* The key service is sent the signature in the form a query can carry.
SendsTheEncodedSignature ==
    At("UPLOAD") \/ At("update_preference") =>
        \E raw \in Raws : IsPrefix(verdict.sent, PercentEncoded(raw))

\* "upload success!" and "download wallpaper success!": the caller takes a
\* transfer for done when curl completed this request and the cloud
\* answered it with 200.
SuccessMeansStored ==
    cloud.result = 0 => cloud.complete /\ cloud.status = 200

\* update_preference's "download wallpaper success!": the wallpaper of the
\* data partition is the one it was or the one of the cloud.
WallpaperKeptOrDownloaded ==
    cloud.file # "damaged"

\* fread and fclose are given a stream.
StreamIsOpened ==
    pc # "crashed"

\* readdir and closedir of is_priKey_exist are given a directory.
KeyDirectoryIsOpened ==
    pc # "readdir(NULL)"

\* enter_remote_update's "Update to the version below?": the update scripts
\* are offered after the key service has verified the signature.
UpdateOfferedAfterAuthentication == At("menu") => verdict.result = CA_TRUE

=============================================================================
