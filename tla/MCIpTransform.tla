--------------------------- MODULE MCIpTransform ---------------------------
(* Instances of IpTransform for TLC.                                        *)
EXTENDS IpTransform

\* 127.0.0.1 has zeros and ones, and so has 01.
MCLoopback == {2}

\* Texts that are no address: bits that no address has.
MCEmptyText  == {Width + 1}
MCAutoText   == {Width + 2}
MCOtherTexts == {{Width + 3}}

\* The sensor has the address 10 or an IPv6 address.
MCPublicTexts == {{1}} \cup OtherTexts
=============================================================================
