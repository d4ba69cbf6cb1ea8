----------------------------- MODULE MCCdcClient -----------------------------
EXTENDS CdcClient

A == <<1, 2>>
B == <<3>>
C == <<4, 5>>

\* A chunk twice with another client's chunk in between; a longer stream that
\* fills both channels, one chunk too many for a manifest; an empty stream.
MCStreams == {<<A, B, A>>, <<A, C, A, C>>, <<A, C, A, A, C>>, <<>>}
MCKnown   == {}
MCForeign == {B}
=============================================================================
