------------------------------- MODULE MCNtfy -------------------------------
(* Instances of Ntfy for TLC. *)
EXTENDS Ntfy

MCValues == {"word", "zero", "two", "twelve", "half", "nan", "yes"}

MCIntOf ==
    [v \in MCValues |->
        CASE v = "zero" -> 0 [] v = "two" -> 2 [] v = "twelve" -> 12
          [] OTHER -> Unreadable]

MCFloatOf ==
    [v \in MCValues |->
        CASE v = "zero" -> 0 [] v = "two" -> 200 [] v = "twelve" -> 1200
          [] v = "half" -> 50 [] v = "nan" -> NaN
          [] OTHER -> Unreadable]

MCVoices == {"word", "yes"}
MCOn == {"yes"}

Short == <<1, 2>>
Control(kind) == [kind |-> kind, body |-> <<>>, tags |-> <<>>]
Message(body, tags) == [kind |-> "message", body |-> body, tags |-> tags]

\* Lines to skip, to raise on and to submit: bodies shorter than the limit,
\* at it, and with a character across it; tags of every key, given once,
\* twice and not readable.
MCLines ==
    {Control("junk"), Control("bytes"),
     Message(<<>>, <<Plain>>),
     Message(<<>>, None),
     Message(<<>>, <<Tag("replay", "two")>>),
     Message(None, <<>>),
     Message(<<Surrogate>>, <<>>),
     Message(<<Surrogate>>, <<Tag("replay", "word"), Tag("voice", "word")>>),
     Message(<<1, 2, 1>>, <<Plain, Tag("speed", "nan"), Tag("rhythm", "word")>>),
     Message(<<1, 2, 2, 1>>, <<Tag("repeat", "twelve"), Tag("voice", "half"),
                               Tag("variation", "two")>>),
     Message(<<4, 1>>, <<Tag("repeat", "two"), Tag("repeat", "zero"),
                         Tag("speed", "twelve"), Tag("speed", "zero"),
                         Tag("voice", "word")>>),
     Message(Short, None),
     Message(Short, <<Tag("prepare", "yes"), Tag("prepare", "zero"),
                      Tag("rhythm", "half"), Tag("repeat", "yes")>>)}
=============================================================================
