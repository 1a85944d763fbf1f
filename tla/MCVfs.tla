-------------------------------- MODULE MCVfs -------------------------------
EXTENDS Vfs

\* A /dev with a zero and a static file, and a directory with the null device.
MCBase ==
    [p \in {<<>>, <<"a">>, <<"a", "a">>, <<"a", "b">>, <<"b">>, <<"b", "b">>} |->
        CASE p \in {<<"a", "a">>, <<"b", "b">>} -> Device
          [] p = <<"a", "b">> -> File(1, FALSE)
          [] OTHER -> Dir]

MCDevNull == <<"b", "b">>

MCDevZero == <<"a", "a">>
=============================================================================
