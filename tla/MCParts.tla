------------------------------- MODULE MCParts -------------------------------
\* Independent parts of the client beside its core, one of them running; the
\* variables of the others keep one value.  "queue" is a bare BaseSubscriber with a
\* MessageQueue.
EXTENDS ReplyReader, Sds, Serialization, Structures, Scanners, Tls, Connecting,
        Handshakes, PersistentSharedHash, SharedDeque, SharedHash, BackgroundFlusher,
        Subscriber

VARIABLE part

Parts == {"reader", "sds", "serialization", "structures", "scanners", "tls",
          "connecting", "handshakes", "persistent", "deque", "hash", "flusher",
          "queue", "subscriber"}

PartsInit ==
  /\ part \in Parts
  /\ ReaderInit /\ (part # "reader" => wireBytes = <<>>)
  /\ SdsInit /\ (part # "sds" => described = <<>>)
  /\ SerializationInit /\ (part # "serialization" => message = [kind |-> "batch", batch |-> <<>>])
  /\ StructuresInit
  /\ ScannerInit /\ (part # "scanners" => kind = "QHash" /\ Elements = {})
  /\ TlsInit /\ (part # "tls" => ~active)
  /\ ConnectingInit
  /\ HandshakesInit /\ (part # "handshakes" => links = <<>>)
  /\ PersistentInit /\ (part # "persistent" => Revision = 0)
  /\ DequeInit /\ SharedHashInit /\ FlusherInit
  /\ SubscriberInit /\ (part \notin {"queue", "subscriber"} => ~pushTypes)

\* The variables of all parts but p
Others(p) ==
  /\ p # "reader" => UNCHANGED readerVars
  /\ p # "sds" => UNCHANGED sdsVars
  /\ p # "serialization" => UNCHANGED serializationVars
  /\ p # "structures" => UNCHANGED structuresVars
  /\ p # "scanners" => UNCHANGED scannerVars
  /\ p # "tls" => UNCHANGED tlsVars
  /\ p # "connecting" => UNCHANGED connectingVars
  /\ p # "handshakes" => UNCHANGED handshakesVars
  /\ p # "persistent" => UNCHANGED phVars
  /\ p # "deque" => UNCHANGED dequeVars
  /\ p # "hash" => UNCHANGED sharedHashVars
  /\ p # "flusher" => UNCHANGED flusherVars
  /\ p = "queue" => UNCHANGED objectVars
  /\ p \notin {"queue", "subscriber"} => UNCHANGED subscribersVars

PartsNext ==
  /\ UNCHANGED part /\ Others(part)
  /\ \/ part = "reader" /\ ReaderNext
     \/ part = "sds" /\ SdsNext
     \/ part = "serialization" /\ SerializationNext
     \/ part = "structures" /\ StructuresNext
     \/ part = "scanners" /\ ScannerNext
     \/ part = "tls" /\ TlsNext
     \/ part = "connecting" /\ ConnectingNext
     \/ part = "handshakes" /\ HandshakesNext
     \/ part = "persistent" /\ PersistentNext
     \/ part = "deque" /\ DequeNext
     \/ part = "hash" /\ SharedHashNext
     \/ part = "flusher" /\ FlusherNext
     \/ part = "queue" /\ BaseNext
     \/ part = "subscriber" /\ SubscriberNext

PartsSpec ==
  PartsInit /\ [][PartsNext]_<<part, readerVars, sdsVars, serializationVars,
                               structuresVars, scannerVars, tlsVars, connectingVars,
                               handshakesVars, phVars, dequeVars, sharedHashVars,
                               flusherVars, subscribersVars>>

-----------------------------------------------------------------------------
(* Values of constants *)

Str(t) == Object("string", t, 0, <<>>)
MCReplies ==
  {Str(<<>>), Str(<<"\r", "\n", "a">>), Nil, Object("status", <<"a">>, 0, <<>>),
   Object("error", <<"a">>, 0, <<>>), Object("array", <<>>, 0, <<>>),
   Object("push", <<>>, 0, <<Str(<<"a">>), Nil>>),
   Object("array", <<>>, 0,
          <<Object("array", <<>>, 0, <<Str(<<"a">>), Object("integer", <<>>, -1, <<>>)>>),
            Object("integer", <<>>, 12, <<>>)>>)}
MCNumberTexts == UNION {[1 .. n -> {"-", "0", "1", "9", "x"}] : n \in 0 .. 3}

MCBits == [t5 |-> 1, t8 |-> 2, t16 |-> 3, t32 |-> 5]
MCTexts == {<<"a">>, <<"b", "nul", "a">>, <<"\"", " ", "\\", "\n", "'">>}
MCNumbers == {-120, 0, 7, 905}

PayloadTexts == {<<>>, <<1>>, <<3, 0>>}
MCMessages ==
  [kind : {"batch"}, batch : UNION {[K -> PayloadTexts] : K \in SUBSET {<<>>, <<1>>}}]
  \cup [kind : {"request"}, uuid : PayloadTexts, contents : PayloadTexts]
  \cup [kind : {"reply"}, uuid : PayloadTexts, status : {-32, -1, 31},
        contents : PayloadTexts]
MCREQ == <<1>>
MCRESP == <<1, 2>>

MCIntercepts == {<<1, 0>>, <<9, 0>>}
MCRequestLengths == <<2, 1, 3>>
MCSent == [i \in 1 .. 8 |-> [byte |-> i, last |-> i \in {3, 4, 8}]]   \* three records
=============================================================================
