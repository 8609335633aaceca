----------------------------- MODULE RRGenerated -----------------------------
(***************************************************************************)
(* The per-type methods of the generated files zmsg.go, ztypes.go and      *)
(* zduplicate.go, as tables: one row per record type, one entry per        *)
(* statement of the method, named after the helper it calls and the field  *)
(* it handles.  RRCodec gives the entries their meaning.                   *)
(***************************************************************************)
EXTENDS TLC

\* `if off == len(msg) { return off, nil }` between two fields of unpack.
Eor == <<"Eor">>

-----------------------------------------------------------------------------
\* func (rr *T) pack: CDomainName passes the caller's compress flag on,
\* DomainName passes false; StringHexSalt is skipped for the salt "-".

Pack_A_CNAME ==
    [A |-> <<<<"DataA", "A">>>>,
     AAAA |-> <<<<"DataAAAA", "AAAA">>>>,
     AFSDB |-> <<<<"Uint16", "Subtype">>, <<"DomainName", "Hostname">>>>,
     AMTRELAY |-> <<<<"Uint8", "Precedence">>, <<"Uint8", "GatewayType">>,
             <<"IPSECGateway", "GatewayHost">>>>,
     ANY |-> <<>>,
     APL |-> <<<<"DataApl", "Prefixes">>>>,
     AVC |-> <<<<"StringTxt", "Txt">>>>,
     CAA |-> <<<<"Uint8", "Flag">>, <<"String", "Tag">>, <<"StringOctet", "Value">>>>,
     CDNSKEY |-> <<<<"Uint16", "Flags">>, <<"Uint8", "Protocol">>, <<"Uint8", "Algorithm">>,
             <<"StringBase64", "PublicKey">>>>,
     CDS |-> <<<<"Uint16", "KeyTag">>, <<"Uint8", "Algorithm">>, <<"Uint8", "DigestType">>,
             <<"StringHex", "Digest">>>>,
     CERT |-> <<<<"Uint16", "Type">>, <<"Uint16", "KeyTag">>, <<"Uint8", "Algorithm">>,
             <<"StringBase64", "Certificate">>>>,
     CNAME |-> <<<<"CDomainName", "Target">>>>]

Pack_CSYNC_GPOS ==
    [CSYNC |-> <<<<"Uint32", "Serial">>, <<"Uint16", "Flags">>, <<"DataNsec", "TypeBitMap">>>>,
     DHCID |-> <<<<"StringBase64", "Digest">>>>,
     DLV |-> <<<<"Uint16", "KeyTag">>, <<"Uint8", "Algorithm">>, <<"Uint8", "DigestType">>,
             <<"StringHex", "Digest">>>>,
     DNAME |-> <<<<"DomainName", "Target">>>>,
     DNSKEY |-> <<<<"Uint16", "Flags">>, <<"Uint8", "Protocol">>, <<"Uint8", "Algorithm">>,
             <<"StringBase64", "PublicKey">>>>,
     DS |-> <<<<"Uint16", "KeyTag">>, <<"Uint8", "Algorithm">>, <<"Uint8", "DigestType">>,
             <<"StringHex", "Digest">>>>,
     EID |-> <<<<"StringHex", "Endpoint">>>>,
     EUI48 |-> <<<<"Uint48", "Address">>>>,
     EUI64 |-> <<<<"Uint64", "Address">>>>,
     GID |-> <<<<"Uint32", "Gid">>>>,
     GPOS |-> <<<<"String", "Longitude">>, <<"String", "Latitude">>, <<"String", "Altitude">>>>]

Pack_HINFO_L64 ==
    [HINFO |-> <<<<"String", "Cpu">>, <<"String", "Os">>>>,
     HIP |-> <<<<"Uint8", "HitLength">>, <<"Uint8", "PublicKeyAlgorithm">>,
             <<"Uint16", "PublicKeyLength">>, <<"StringHex", "Hit">>, <<"StringBase64", "PublicKey">>,
             <<"DataDomainNames", "RendezvousServers">>>>,
     HTTPS |-> <<<<"Uint16", "Priority">>, <<"DomainName", "Target">>, <<"DataSVCB", "Value">>>>,
     IPSECKEY |-> <<<<"Uint8", "Precedence">>, <<"Uint8", "GatewayType">>, <<"Uint8", "Algorithm">>,
             <<"IPSECGateway", "GatewayHost">>, <<"StringBase64", "PublicKey">>>>,
     ISDN |-> <<<<"String", "Address">>, <<"String", "SubAddress">>>>,
     KEY |-> <<<<"Uint16", "Flags">>, <<"Uint8", "Protocol">>, <<"Uint8", "Algorithm">>,
             <<"StringBase64", "PublicKey">>>>,
     KX |-> <<<<"Uint16", "Preference">>, <<"DomainName", "Exchanger">>>>,
     L32 |-> <<<<"Uint16", "Preference">>, <<"DataA", "Locator32">>>>,
     L64 |-> <<<<"Uint16", "Preference">>, <<"Uint64", "Locator64">>>>]

Pack_LOC_NID ==
    [LOC |-> <<<<"Uint8", "Version">>, <<"Uint8", "Size">>, <<"Uint8", "HorizPre">>,
             <<"Uint8", "VertPre">>, <<"Uint32", "Latitude">>, <<"Uint32", "Longitude">>,
             <<"Uint32", "Altitude">>>>,
     LP |-> <<<<"Uint16", "Preference">>, <<"DomainName", "Fqdn">>>>,
     MB |-> <<<<"CDomainName", "Mb">>>>,
     MD |-> <<<<"CDomainName", "Md">>>>,
     MF |-> <<<<"CDomainName", "Mf">>>>,
     MG |-> <<<<"CDomainName", "Mg">>>>,
     MINFO |-> <<<<"CDomainName", "Rmail">>, <<"CDomainName", "Email">>>>,
     MR |-> <<<<"CDomainName", "Mr">>>>,
     MX |-> <<<<"Uint16", "Preference">>, <<"CDomainName", "Mx">>>>,
     NAPTR |-> <<<<"Uint16", "Order">>, <<"Uint16", "Preference">>, <<"String", "Flags">>,
             <<"String", "Service">>, <<"String", "Regexp">>, <<"DomainName", "Replacement">>>>,
     NID |-> <<<<"Uint16", "Preference">>, <<"Uint64", "NodeID">>>>]

Pack_NIMLOC_OPT ==
    [NIMLOC |-> <<<<"StringHex", "Locator">>>>,
     NINFO |-> <<<<"StringTxt", "ZSData">>>>,
     NS |-> <<<<"CDomainName", "Ns">>>>,
     NSAPPTR |-> <<<<"DomainName", "Ptr">>>>,
     NSEC |-> <<<<"DomainName", "NextDomain">>, <<"DataNsec", "TypeBitMap">>>>,
     NSEC3 |-> <<<<"Uint8", "Hash">>, <<"Uint8", "Flags">>, <<"Uint16", "Iterations">>,
             <<"Uint8", "SaltLength">>, <<"StringHexSalt", "Salt">>, <<"Uint8", "HashLength">>,
             <<"StringBase32", "NextDomain">>, <<"DataNsec", "TypeBitMap">>>>,
     NSEC3PARAM |-> <<<<"Uint8", "Hash">>, <<"Uint8", "Flags">>, <<"Uint16", "Iterations">>,
             <<"Uint8", "SaltLength">>, <<"StringHexSalt", "Salt">>>>,
     NULL |-> <<<<"StringAny", "Data">>>>,
     NXNAME |-> <<>>,
     NXT |-> <<<<"DomainName", "NextDomain">>, <<"DataNsec", "TypeBitMap">>>>,
     OPENPGPKEY |-> <<<<"StringBase64", "PublicKey">>>>,
     OPT |-> <<<<"DataOpt", "Option">>>>]

Pack_PTR_RT ==
    [PTR |-> <<<<"CDomainName", "Ptr">>>>,
     PX |-> <<<<"Uint16", "Preference">>, <<"DomainName", "Map822">>, <<"DomainName", "Mapx400">>>>,
     RESINFO |-> <<<<"StringTxt", "Txt">>>>,
     RFC3597 |-> <<<<"StringHex", "Rdata">>>>,
     RKEY |-> <<<<"Uint16", "Flags">>, <<"Uint8", "Protocol">>, <<"Uint8", "Algorithm">>,
             <<"StringBase64", "PublicKey">>>>,
     RP |-> <<<<"DomainName", "Mbox">>, <<"DomainName", "Txt">>>>,
     RRSIG |-> <<<<"Uint16", "TypeCovered">>, <<"Uint8", "Algorithm">>, <<"Uint8", "Labels">>,
             <<"Uint32", "OrigTtl">>, <<"Uint32", "Expiration">>, <<"Uint32", "Inception">>,
             <<"Uint16", "KeyTag">>, <<"DomainName", "SignerName">>, <<"StringBase64", "Signature">>>>,
     RT |-> <<<<"Uint16", "Preference">>, <<"DomainName", "Host">>>>]

Pack_SIG_SSHFP ==
    [SIG |-> <<<<"Uint16", "TypeCovered">>, <<"Uint8", "Algorithm">>, <<"Uint8", "Labels">>,
             <<"Uint32", "OrigTtl">>, <<"Uint32", "Expiration">>, <<"Uint32", "Inception">>,
             <<"Uint16", "KeyTag">>, <<"DomainName", "SignerName">>, <<"StringBase64", "Signature">>>>,
     SMIMEA |-> <<<<"Uint8", "Usage">>, <<"Uint8", "Selector">>, <<"Uint8", "MatchingType">>,
             <<"StringHex", "Certificate">>>>,
     SOA |-> <<<<"CDomainName", "Ns">>, <<"CDomainName", "Mbox">>, <<"Uint32", "Serial">>,
             <<"Uint32", "Refresh">>, <<"Uint32", "Retry">>, <<"Uint32", "Expire">>,
             <<"Uint32", "Minttl">>>>,
     SPF |-> <<<<"StringTxt", "Txt">>>>,
     SRV |-> <<<<"Uint16", "Priority">>, <<"Uint16", "Weight">>, <<"Uint16", "Port">>,
             <<"DomainName", "Target">>>>,
     SSHFP |-> <<<<"Uint8", "Algorithm">>, <<"Uint8", "Type">>, <<"StringHex", "FingerPrint">>>>]

Pack_SVCB_TSIG ==
    [SVCB |-> <<<<"Uint16", "Priority">>, <<"DomainName", "Target">>, <<"DataSVCB", "Value">>>>,
     TA |-> <<<<"Uint16", "KeyTag">>, <<"Uint8", "Algorithm">>, <<"Uint8", "DigestType">>,
             <<"StringHex", "Digest">>>>,
     TALINK |-> <<<<"DomainName", "PreviousName">>, <<"DomainName", "NextName">>>>,
     TKEY |-> <<<<"DomainName", "Algorithm">>, <<"Uint32", "Inception">>, <<"Uint32", "Expiration">>,
             <<"Uint16", "Mode">>, <<"Uint16", "Error">>, <<"Uint16", "KeySize">>,
             <<"StringHex", "Key">>, <<"Uint16", "OtherLen">>, <<"StringHex", "OtherData">>>>,
     TLSA |-> <<<<"Uint8", "Usage">>, <<"Uint8", "Selector">>, <<"Uint8", "MatchingType">>,
             <<"StringHex", "Certificate">>>>,
     TSIG |-> <<<<"DomainName", "Algorithm">>, <<"Uint48", "TimeSigned">>, <<"Uint16", "Fudge">>,
             <<"Uint16", "MACSize">>, <<"StringHex", "MAC">>, <<"Uint16", "OrigId">>,
             <<"Uint16", "Error">>, <<"Uint16", "OtherLen">>, <<"StringHex", "OtherData">>>>]

Pack_TXT_ZONEMD ==
    [TXT |-> <<<<"StringTxt", "Txt">>>>,
     UID |-> <<<<"Uint32", "Uid">>>>,
     UINFO |-> <<<<"String", "Uinfo">>>>,
     URI |-> <<<<"Uint16", "Priority">>, <<"Uint16", "Weight">>, <<"StringOctet", "Target">>>>,
     X25 |-> <<<<"String", "PSDNAddress">>>>,
     ZONEMD |-> <<<<"Uint32", "Serial">>, <<"Uint8", "Scheme">>, <<"Uint8", "Hash">>,
             <<"StringHex", "Digest">>>>]

PackTable ==
    Pack_A_CNAME @@ Pack_CSYNC_GPOS @@ Pack_HINFO_L64 @@ Pack_LOC_NID @@ Pack_NIMLOC_OPT @@
    Pack_PTR_RT @@ Pack_SIG_SSHFP @@ Pack_SVCB_TSIG @@ Pack_TXT_ZONEMD

-----------------------------------------------------------------------------
\* func (rr *T) unpack: a ToEnd entry reads up to rdStart+Rdlength, an entry
\* with a third component reads the number of octets that field holds.

Unpack_A_CAA ==
    [A |-> <<<<"DataA", "A">>>>,
     AAAA |-> <<<<"DataAAAA", "AAAA">>>>,
     AFSDB |-> <<<<"Uint16", "Subtype">>, Eor, <<"DomainName", "Hostname">>>>,
     AMTRELAY |-> <<<<"Uint8", "Precedence">>, Eor, <<"Uint8", "GatewayType">>, Eor, Eor,
             <<"IPSECGateway", "GatewayHost">>>>,
     ANY |-> <<>>,
     APL |-> <<<<"DataApl", "Prefixes">>>>,
     AVC |-> <<<<"StringTxt", "Txt">>>>,
     CAA |-> <<<<"Uint8", "Flag">>, Eor, <<"String", "Tag">>, Eor, <<"StringOctet", "Value">>>>]

Unpack_CDNSKEY_DHCID ==
    [CDNSKEY |-> <<<<"Uint16", "Flags">>, Eor, <<"Uint8", "Protocol">>, Eor, <<"Uint8", "Algorithm">>,
             Eor, <<"StringBase64ToEnd", "PublicKey">>>>,
     CDS |-> <<<<"Uint16", "KeyTag">>, Eor, <<"Uint8", "Algorithm">>, Eor, <<"Uint8", "DigestType">>,
             Eor, <<"StringHexToEnd", "Digest">>>>,
     CERT |-> <<<<"Uint16", "Type">>, Eor, <<"Uint16", "KeyTag">>, Eor, <<"Uint8", "Algorithm">>, Eor,
             <<"StringBase64ToEnd", "Certificate">>>>,
     CNAME |-> <<<<"DomainName", "Target">>>>,
     CSYNC |-> <<<<"Uint32", "Serial">>, Eor, <<"Uint16", "Flags">>, Eor,
             <<"DataNsec", "TypeBitMap">>>>,
     DHCID |-> <<<<"StringBase64ToEnd", "Digest">>>>]

Unpack_DLV_GID ==
    [DLV |-> <<<<"Uint16", "KeyTag">>, Eor, <<"Uint8", "Algorithm">>, Eor, <<"Uint8", "DigestType">>,
             Eor, <<"StringHexToEnd", "Digest">>>>,
     DNAME |-> <<<<"DomainName", "Target">>>>,
     DNSKEY |-> <<<<"Uint16", "Flags">>, Eor, <<"Uint8", "Protocol">>, Eor, <<"Uint8", "Algorithm">>,
             Eor, <<"StringBase64ToEnd", "PublicKey">>>>,
     DS |-> <<<<"Uint16", "KeyTag">>, Eor, <<"Uint8", "Algorithm">>, Eor, <<"Uint8", "DigestType">>,
             Eor, <<"StringHexToEnd", "Digest">>>>,
     EID |-> <<<<"StringHexToEnd", "Endpoint">>>>,
     EUI48 |-> <<<<"Uint48", "Address">>>>,
     EUI64 |-> <<<<"Uint64", "Address">>>>,
     GID |-> <<<<"Uint32", "Gid">>>>]

Unpack_GPOS_IPSECKEY ==
    [GPOS |-> <<<<"String", "Longitude">>, Eor, <<"String", "Latitude">>, Eor,
             <<"String", "Altitude">>>>,
     HINFO |-> <<<<"String", "Cpu">>, Eor, <<"String", "Os">>>>,
     HIP |-> <<<<"Uint8", "HitLength">>, Eor, <<"Uint8", "PublicKeyAlgorithm">>, Eor,
             <<"Uint16", "PublicKeyLength">>, Eor, <<"StringHex", "Hit", "HitLength">>,
             <<"StringBase64", "PublicKey", "PublicKeyLength">>,
             <<"DataDomainNamesToEnd", "RendezvousServers">>>>,
     HTTPS |-> <<<<"Uint16", "Priority">>, Eor, <<"DomainName", "Target">>, Eor,
             <<"DataSVCB", "Value">>>>,
     IPSECKEY |-> <<<<"Uint8", "Precedence">>, Eor, <<"Uint8", "GatewayType">>, Eor,
             <<"Uint8", "Algorithm">>, Eor, Eor, <<"IPSECGateway", "GatewayHost">>, Eor,
             <<"StringBase64ToEnd", "PublicKey">>>>]

Unpack_ISDN_L64 ==
    [ISDN |-> <<<<"String", "Address">>, Eor, <<"String", "SubAddress">>>>,
     KEY |-> <<<<"Uint16", "Flags">>, Eor, <<"Uint8", "Protocol">>, Eor, <<"Uint8", "Algorithm">>, Eor,
             <<"StringBase64ToEnd", "PublicKey">>>>,
     KX |-> <<<<"Uint16", "Preference">>, Eor, <<"DomainName", "Exchanger">>>>,
     L32 |-> <<<<"Uint16", "Preference">>, Eor, <<"DataA", "Locator32">>>>,
     L64 |-> <<<<"Uint16", "Preference">>, Eor, <<"Uint64", "Locator64">>>>]

Unpack_LOC_MR ==
    [LOC |-> <<<<"Uint8", "Version">>, Eor, <<"Uint8", "Size">>, Eor, <<"Uint8", "HorizPre">>, Eor,
             <<"Uint8", "VertPre">>, Eor, <<"Uint32", "Latitude">>, Eor, <<"Uint32", "Longitude">>,
             Eor, <<"Uint32", "Altitude">>>>,
     LP |-> <<<<"Uint16", "Preference">>, Eor, <<"DomainName", "Fqdn">>>>,
     MB |-> <<<<"DomainName", "Mb">>>>,
     MD |-> <<<<"DomainName", "Md">>>>,
     MF |-> <<<<"DomainName", "Mf">>>>,
     MG |-> <<<<"DomainName", "Mg">>>>,
     MINFO |-> <<<<"DomainName", "Rmail">>, Eor, <<"DomainName", "Email">>>>,
     MR |-> <<<<"DomainName", "Mr">>>>]

Unpack_MX_NSEC ==
    [MX |-> <<<<"Uint16", "Preference">>, Eor, <<"DomainName", "Mx">>>>,
     NAPTR |-> <<<<"Uint16", "Order">>, Eor, <<"Uint16", "Preference">>, Eor, <<"String", "Flags">>,
             Eor, <<"String", "Service">>, Eor, <<"String", "Regexp">>, Eor,
             <<"DomainName", "Replacement">>>>,
     NID |-> <<<<"Uint16", "Preference">>, Eor, <<"Uint64", "NodeID">>>>,
     NIMLOC |-> <<<<"StringHexToEnd", "Locator">>>>,
     NINFO |-> <<<<"StringTxt", "ZSData">>>>,
     NS |-> <<<<"DomainName", "Ns">>>>,
     NSAPPTR |-> <<<<"DomainName", "Ptr">>>>,
     NSEC |-> <<<<"DomainName", "NextDomain">>, Eor, <<"DataNsec", "TypeBitMap">>>>]

Unpack_NSEC3_OPT ==
    [NSEC3 |-> <<<<"Uint8", "Hash">>, Eor, <<"Uint8", "Flags">>, Eor, <<"Uint16", "Iterations">>, Eor,
             <<"Uint8", "SaltLength">>, Eor, <<"StringHex", "Salt", "SaltLength">>,
             <<"Uint8", "HashLength">>, Eor, <<"StringBase32", "NextDomain", "HashLength">>,
             <<"DataNsec", "TypeBitMap">>>>,
     NSEC3PARAM |-> <<<<"Uint8", "Hash">>, Eor, <<"Uint8", "Flags">>, Eor, <<"Uint16", "Iterations">>,
             Eor, <<"Uint8", "SaltLength">>, Eor, <<"StringHex", "Salt", "SaltLength">>>>,
     NULL |-> <<<<"StringAnyToEnd", "Data">>>>,
     NXNAME |-> <<>>,
     NXT |-> <<<<"DomainName", "NextDomain">>, Eor, <<"DataNsec", "TypeBitMap">>>>,
     OPENPGPKEY |-> <<<<"StringBase64ToEnd", "PublicKey">>>>,
     OPT |-> <<<<"DataOpt", "Option">>>>]

Unpack_PTR_RP ==
    [PTR |-> <<<<"DomainName", "Ptr">>>>,
     PX |-> <<<<"Uint16", "Preference">>, Eor, <<"DomainName", "Map822">>, Eor,
             <<"DomainName", "Mapx400">>>>,
     RESINFO |-> <<<<"StringTxt", "Txt">>>>,
     RFC3597 |-> <<<<"StringHexToEnd", "Rdata">>>>,
     RKEY |-> <<<<"Uint16", "Flags">>, Eor, <<"Uint8", "Protocol">>, Eor, <<"Uint8", "Algorithm">>,
             Eor, <<"StringBase64ToEnd", "PublicKey">>>>,
     RP |-> <<<<"DomainName", "Mbox">>, Eor, <<"DomainName", "Txt">>>>]

Unpack_RRSIG_RT ==
    [RRSIG |-> <<<<"Uint16", "TypeCovered">>, Eor, <<"Uint8", "Algorithm">>, Eor,
             <<"Uint8", "Labels">>, Eor, <<"Uint32", "OrigTtl">>, Eor, <<"Uint32", "Expiration">>, Eor,
             <<"Uint32", "Inception">>, Eor, <<"Uint16", "KeyTag">>, Eor,
             <<"DomainName", "SignerName">>, Eor, <<"StringBase64ToEnd", "Signature">>>>,
     RT |-> <<<<"Uint16", "Preference">>, Eor, <<"DomainName", "Host">>>>]

Unpack_SIG_SMIMEA ==
    [SIG |-> <<<<"Uint16", "TypeCovered">>, Eor, <<"Uint8", "Algorithm">>, Eor, <<"Uint8", "Labels">>,
             Eor, <<"Uint32", "OrigTtl">>, Eor, <<"Uint32", "Expiration">>, Eor,
             <<"Uint32", "Inception">>, Eor, <<"Uint16", "KeyTag">>, Eor,
             <<"DomainName", "SignerName">>, Eor, <<"StringBase64ToEnd", "Signature">>>>,
     SMIMEA |-> <<<<"Uint8", "Usage">>, Eor, <<"Uint8", "Selector">>, Eor, <<"Uint8", "MatchingType">>,
             Eor, <<"StringHexToEnd", "Certificate">>>>]

Unpack_SOA_SVCB ==
    [SOA |-> <<<<"DomainName", "Ns">>, Eor, <<"DomainName", "Mbox">>, Eor, <<"Uint32", "Serial">>, Eor,
             <<"Uint32", "Refresh">>, Eor, <<"Uint32", "Retry">>, Eor, <<"Uint32", "Expire">>, Eor,
             <<"Uint32", "Minttl">>>>,
     SPF |-> <<<<"StringTxt", "Txt">>>>,
     SRV |-> <<<<"Uint16", "Priority">>, Eor, <<"Uint16", "Weight">>, Eor, <<"Uint16", "Port">>, Eor,
             <<"DomainName", "Target">>>>,
     SSHFP |-> <<<<"Uint8", "Algorithm">>, Eor, <<"Uint8", "Type">>, Eor,
             <<"StringHexToEnd", "FingerPrint">>>>,
     SVCB |-> <<<<"Uint16", "Priority">>, Eor, <<"DomainName", "Target">>, Eor,
             <<"DataSVCB", "Value">>>>]

Unpack_TA_TLSA ==
    [TA |-> <<<<"Uint16", "KeyTag">>, Eor, <<"Uint8", "Algorithm">>, Eor, <<"Uint8", "DigestType">>,
             Eor, <<"StringHexToEnd", "Digest">>>>,
     TALINK |-> <<<<"DomainName", "PreviousName">>, Eor, <<"DomainName", "NextName">>>>,
     TKEY |-> <<<<"DomainName", "Algorithm">>, Eor, <<"Uint32", "Inception">>, Eor,
             <<"Uint32", "Expiration">>, Eor, <<"Uint16", "Mode">>, Eor, <<"Uint16", "Error">>, Eor,
             <<"Uint16", "KeySize">>, Eor, <<"StringHex", "Key", "KeySize">>, <<"Uint16", "OtherLen">>,
             Eor, <<"StringHex", "OtherData", "OtherLen">>>>,
     TLSA |-> <<<<"Uint8", "Usage">>, Eor, <<"Uint8", "Selector">>, Eor, <<"Uint8", "MatchingType">>,
             Eor, <<"StringHexToEnd", "Certificate">>>>]

Unpack_TSIG_X25 ==
    [TSIG |-> <<<<"DomainName", "Algorithm">>, Eor, <<"Uint48", "TimeSigned">>, Eor,
             <<"Uint16", "Fudge">>, Eor, <<"Uint16", "MACSize">>, Eor,
             <<"StringHex", "MAC", "MACSize">>, <<"Uint16", "OrigId">>, Eor, <<"Uint16", "Error">>,
             Eor, <<"Uint16", "OtherLen">>, Eor, <<"StringHex", "OtherData", "OtherLen">>>>,
     TXT |-> <<<<"StringTxt", "Txt">>>>,
     UID |-> <<<<"Uint32", "Uid">>>>,
     UINFO |-> <<<<"String", "Uinfo">>>>,
     URI |-> <<<<"Uint16", "Priority">>, Eor, <<"Uint16", "Weight">>, Eor,
             <<"StringOctet", "Target">>>>,
     X25 |-> <<<<"String", "PSDNAddress">>>>]

Unpack_ZONEMD ==
    [ZONEMD |-> <<<<"Uint32", "Serial">>, Eor, <<"Uint8", "Scheme">>, Eor, <<"Uint8", "Hash">>, Eor,
             <<"StringHexToEnd", "Digest">>>>]

UnpackTable ==
    Unpack_A_CAA @@ Unpack_CDNSKEY_DHCID @@ Unpack_DLV_GID @@ Unpack_GPOS_IPSECKEY @@
    Unpack_ISDN_L64 @@ Unpack_LOC_MR @@ Unpack_MX_NSEC @@ Unpack_NSEC3_OPT @@ Unpack_PTR_RP @@
    Unpack_RRSIG_RT @@ Unpack_SIG_SMIMEA @@ Unpack_SOA_SVCB @@ Unpack_TA_TLSA @@ Unpack_TSIG_X25 @@
    Unpack_ZONEMD

-----------------------------------------------------------------------------
\* func (rr *T) len: what is added to the length of the header.  Types that
\* embed another one have no method of their own.

Len_A_HINFO ==
    [A |-> <<<<"DataA", "A">>>>,
     AAAA |-> <<<<"DataAAAA", "AAAA">>>>,
     AFSDB |-> <<<<"Uint16", "Subtype">>, <<"DomainName", "Hostname">>>>,
     AMTRELAY |-> <<<<"Uint8", "Precedence">>, <<"Uint8", "GatewayType">>,
             <<"IPSECGateway", "GatewayHost">>>>,
     ANY |-> <<>>,
     APL |-> <<<<"DataApl", "Prefixes">>>>,
     AVC |-> <<<<"StringTxt", "Txt">>>>,
     CAA |-> <<<<"Uint8", "Flag">>, <<"String", "Tag">>, <<"StringOctet", "Value">>>>,
     CERT |-> <<<<"Uint16", "Type">>, <<"Uint16", "KeyTag">>, <<"Uint8", "Algorithm">>,
             <<"StringBase64", "Certificate">>>>,
     CNAME |-> <<<<"CDomainName", "Target">>>>,
     DHCID |-> <<<<"StringBase64", "Digest">>>>,
     DNAME |-> <<<<"DomainName", "Target">>>>,
     DNSKEY |-> <<<<"Uint16", "Flags">>, <<"Uint8", "Protocol">>, <<"Uint8", "Algorithm">>,
             <<"StringBase64", "PublicKey">>>>,
     DS |-> <<<<"Uint16", "KeyTag">>, <<"Uint8", "Algorithm">>, <<"Uint8", "DigestType">>,
             <<"StringHex", "Digest">>>>,
     EID |-> <<<<"StringHex", "Endpoint">>>>,
     EUI48 |-> <<<<"Uint48", "Address">>>>,
     EUI64 |-> <<<<"Uint64", "Address">>>>,
     GID |-> <<<<"Uint32", "Gid">>>>,
     GPOS |-> <<<<"String", "Longitude">>, <<"String", "Latitude">>, <<"String", "Altitude">>>>,
     HINFO |-> <<<<"String", "Cpu">>, <<"String", "Os">>>>]

Len_HIP_NIMLOC ==
    [HIP |-> <<<<"Uint8", "HitLength">>, <<"Uint8", "PublicKeyAlgorithm">>,
             <<"Uint16", "PublicKeyLength">>, <<"StringHex", "Hit">>, <<"StringBase64", "PublicKey">>,
             <<"DataDomainNames", "RendezvousServers">>>>,
     IPSECKEY |-> <<<<"Uint8", "Precedence">>, <<"Uint8", "GatewayType">>, <<"Uint8", "Algorithm">>,
             <<"IPSECGateway", "GatewayHost">>, <<"StringBase64", "PublicKey">>>>,
     ISDN |-> <<<<"String", "Address">>, <<"String", "SubAddress">>>>,
     KX |-> <<<<"Uint16", "Preference">>, <<"DomainName", "Exchanger">>>>,
     L32 |-> <<<<"Uint16", "Preference">>, <<"DataA", "Locator32">>>>,
     L64 |-> <<<<"Uint16", "Preference">>, <<"Uint64", "Locator64">>>>,
     LOC |-> <<<<"Uint8", "Version">>, <<"Uint8", "Size">>, <<"Uint8", "HorizPre">>,
             <<"Uint8", "VertPre">>, <<"Uint32", "Latitude">>, <<"Uint32", "Longitude">>,
             <<"Uint32", "Altitude">>>>,
     LP |-> <<<<"Uint16", "Preference">>, <<"DomainName", "Fqdn">>>>,
     MB |-> <<<<"CDomainName", "Mb">>>>,
     MD |-> <<<<"CDomainName", "Md">>>>,
     MF |-> <<<<"CDomainName", "Mf">>>>,
     MG |-> <<<<"CDomainName", "Mg">>>>,
     MINFO |-> <<<<"CDomainName", "Rmail">>, <<"CDomainName", "Email">>>>,
     MR |-> <<<<"CDomainName", "Mr">>>>,
     MX |-> <<<<"Uint16", "Preference">>, <<"CDomainName", "Mx">>>>,
     NAPTR |-> <<<<"Uint16", "Order">>, <<"Uint16", "Preference">>, <<"String", "Flags">>,
             <<"String", "Service">>, <<"String", "Regexp">>, <<"DomainName", "Replacement">>>>,
     NID |-> <<<<"Uint16", "Preference">>, <<"Uint64", "NodeID">>>>,
     NIMLOC |-> <<<<"StringHex", "Locator">>>>]

Len_NINFO_SRV ==
    [NINFO |-> <<<<"StringTxt", "ZSData">>>>,
     NS |-> <<<<"CDomainName", "Ns">>>>,
     NSAPPTR |-> <<<<"DomainName", "Ptr">>>>,
     NSEC3PARAM |-> <<<<"Uint8", "Hash">>, <<"Uint8", "Flags">>, <<"Uint16", "Iterations">>,
             <<"Uint8", "SaltLength">>, <<"StringHex", "Salt">>>>,
     NULL |-> <<<<"StringOctet", "Data">>>>,
     NXNAME |-> <<>>,
     OPENPGPKEY |-> <<<<"StringBase64", "PublicKey">>>>,
     PTR |-> <<<<"CDomainName", "Ptr">>>>,
     PX |-> <<<<"Uint16", "Preference">>, <<"DomainName", "Map822">>, <<"DomainName", "Mapx400">>>>,
     RESINFO |-> <<<<"StringTxt", "Txt">>>>,
     RFC3597 |-> <<<<"StringHex", "Rdata">>>>,
     RKEY |-> <<<<"Uint16", "Flags">>, <<"Uint8", "Protocol">>, <<"Uint8", "Algorithm">>,
             <<"StringBase64", "PublicKey">>>>,
     RP |-> <<<<"DomainName", "Mbox">>, <<"DomainName", "Txt">>>>,
     RRSIG |-> <<<<"Uint16", "TypeCovered">>, <<"Uint8", "Algorithm">>, <<"Uint8", "Labels">>,
             <<"Uint32", "OrigTtl">>, <<"Uint32", "Expiration">>, <<"Uint32", "Inception">>,
             <<"Uint16", "KeyTag">>, <<"DomainName", "SignerName">>, <<"StringBase64", "Signature">>>>,
     RT |-> <<<<"Uint16", "Preference">>, <<"DomainName", "Host">>>>,
     SMIMEA |-> <<<<"Uint8", "Usage">>, <<"Uint8", "Selector">>, <<"Uint8", "MatchingType">>,
             <<"StringHex", "Certificate">>>>,
     SOA |-> <<<<"CDomainName", "Ns">>, <<"CDomainName", "Mbox">>, <<"Uint32", "Serial">>,
             <<"Uint32", "Refresh">>, <<"Uint32", "Retry">>, <<"Uint32", "Expire">>,
             <<"Uint32", "Minttl">>>>,
     SPF |-> <<<<"StringTxt", "Txt">>>>,
     SRV |-> <<<<"Uint16", "Priority">>, <<"Uint16", "Weight">>, <<"Uint16", "Port">>,
             <<"DomainName", "Target">>>>]

Len_SSHFP_ZONEMD ==
    [SSHFP |-> <<<<"Uint8", "Algorithm">>, <<"Uint8", "Type">>, <<"StringHex", "FingerPrint">>>>,
     SVCB |-> <<<<"Uint16", "Priority">>, <<"DomainName", "Target">>, <<"DataSVCB", "Value">>>>,
     TA |-> <<<<"Uint16", "KeyTag">>, <<"Uint8", "Algorithm">>, <<"Uint8", "DigestType">>,
             <<"StringHex", "Digest">>>>,
     TALINK |-> <<<<"DomainName", "PreviousName">>, <<"DomainName", "NextName">>>>,
     TKEY |-> <<<<"DomainName", "Algorithm">>, <<"Uint32", "Inception">>, <<"Uint32", "Expiration">>,
             <<"Uint16", "Mode">>, <<"Uint16", "Error">>, <<"Uint16", "KeySize">>,
             <<"StringHex", "Key">>, <<"Uint16", "OtherLen">>, <<"StringHex", "OtherData">>>>,
     TLSA |-> <<<<"Uint8", "Usage">>, <<"Uint8", "Selector">>, <<"Uint8", "MatchingType">>,
             <<"StringHex", "Certificate">>>>,
     TSIG |-> <<<<"DomainName", "Algorithm">>, <<"Uint48", "TimeSigned">>, <<"Uint16", "Fudge">>,
             <<"Uint16", "MACSize">>, <<"StringHex", "MAC">>, <<"Uint16", "OrigId">>,
             <<"Uint16", "Error">>, <<"Uint16", "OtherLen">>, <<"StringHex", "OtherData">>>>,
     TXT |-> <<<<"StringTxt", "Txt">>>>,
     UID |-> <<<<"Uint32", "Uid">>>>,
     UINFO |-> <<<<"String", "Uinfo">>>>,
     URI |-> <<<<"Uint16", "Priority">>, <<"Uint16", "Weight">>, <<"StringOctet", "Target">>>>,
     X25 |-> <<<<"String", "PSDNAddress">>>>,
     ZONEMD |-> <<<<"Uint32", "Serial">>, <<"Uint8", "Scheme">>, <<"Uint8", "Hash">>,
             <<"StringHex", "Digest">>>>]

LenTable ==
    Len_A_HINFO @@ Len_HIP_NIMLOC @@ Len_NINFO_SRV @@ Len_SSHFP_ZONEMD

-----------------------------------------------------------------------------
\* func (rr *T) copy: fields copied by value, slices cloned, elements copied
\* one by one, or the embedded record copied.

Copy_A_HIP ==
    [A |-> <<<<"cloneSlice", "A">>>>,
     AAAA |-> <<<<"cloneSlice", "AAAA">>>>,
     AFSDB |-> <<<<"value", "Subtype">>, <<"value", "Hostname">>>>,
     AMTRELAY |-> <<<<"value", "Precedence">>, <<"value", "GatewayType">>,
             <<"cloneSlice", "GatewayAddr">>, <<"value", "GatewayHost">>>>,
     ANY |-> <<>>,
     APL |-> <<<<"copyEach", "Prefixes">>>>,
     AVC |-> <<<<"cloneSlice", "Txt">>>>,
     CAA |-> <<<<"value", "Flag">>, <<"value", "Tag">>, <<"value", "Value">>>>,
     CDNSKEY |-> <<<<"embedded", "DNSKEY">>>>,
     CDS |-> <<<<"embedded", "DS">>>>,
     CERT |-> <<<<"value", "Type">>, <<"value", "KeyTag">>, <<"value", "Algorithm">>,
             <<"value", "Certificate">>>>,
     CNAME |-> <<<<"value", "Target">>>>,
     CSYNC |-> <<<<"value", "Serial">>, <<"value", "Flags">>, <<"cloneSlice", "TypeBitMap">>>>,
     DHCID |-> <<<<"value", "Digest">>>>,
     DLV |-> <<<<"embedded", "DS">>>>,
     DNAME |-> <<<<"value", "Target">>>>,
     DNSKEY |-> <<<<"value", "Flags">>, <<"value", "Protocol">>, <<"value", "Algorithm">>,
             <<"value", "PublicKey">>>>,
     DS |-> <<<<"value", "KeyTag">>, <<"value", "Algorithm">>, <<"value", "DigestType">>,
             <<"value", "Digest">>>>,
     EID |-> <<<<"value", "Endpoint">>>>,
     EUI48 |-> <<<<"value", "Address">>>>,
     EUI64 |-> <<<<"value", "Address">>>>,
     GID |-> <<<<"value", "Gid">>>>,
     GPOS |-> <<<<"value", "Longitude">>, <<"value", "Latitude">>, <<"value", "Altitude">>>>,
     HINFO |-> <<<<"value", "Cpu">>, <<"value", "Os">>>>,
     HIP |-> <<<<"value", "HitLength">>, <<"value", "PublicKeyAlgorithm">>,
             <<"value", "PublicKeyLength">>, <<"value", "Hit">>, <<"value", "PublicKey">>,
             <<"cloneSlice", "RendezvousServers">>>>]

Copy_HTTPS_NXNAME ==
    [HTTPS |-> <<<<"embedded", "SVCB">>>>,
     IPSECKEY |-> <<<<"value", "Precedence">>, <<"value", "GatewayType">>, <<"value", "Algorithm">>,
             <<"cloneSlice", "GatewayAddr">>, <<"value", "GatewayHost">>, <<"value", "PublicKey">>>>,
     ISDN |-> <<<<"value", "Address">>, <<"value", "SubAddress">>>>,
     KEY |-> <<<<"embedded", "DNSKEY">>>>,
     KX |-> <<<<"value", "Preference">>, <<"value", "Exchanger">>>>,
     L32 |-> <<<<"value", "Preference">>, <<"cloneSlice", "Locator32">>>>,
     L64 |-> <<<<"value", "Preference">>, <<"value", "Locator64">>>>,
     LOC |-> <<<<"value", "Version">>, <<"value", "Size">>, <<"value", "HorizPre">>,
             <<"value", "VertPre">>, <<"value", "Latitude">>, <<"value", "Longitude">>,
             <<"value", "Altitude">>>>,
     LP |-> <<<<"value", "Preference">>, <<"value", "Fqdn">>>>,
     MB |-> <<<<"value", "Mb">>>>,
     MD |-> <<<<"value", "Md">>>>,
     MF |-> <<<<"value", "Mf">>>>,
     MG |-> <<<<"value", "Mg">>>>,
     MINFO |-> <<<<"value", "Rmail">>, <<"value", "Email">>>>,
     MR |-> <<<<"value", "Mr">>>>,
     MX |-> <<<<"value", "Preference">>, <<"value", "Mx">>>>,
     NAPTR |-> <<<<"value", "Order">>, <<"value", "Preference">>, <<"value", "Flags">>,
             <<"value", "Service">>, <<"value", "Regexp">>, <<"value", "Replacement">>>>,
     NID |-> <<<<"value", "Preference">>, <<"value", "NodeID">>>>,
     NIMLOC |-> <<<<"value", "Locator">>>>,
     NINFO |-> <<<<"cloneSlice", "ZSData">>>>,
     NS |-> <<<<"value", "Ns">>>>,
     NSAPPTR |-> <<<<"value", "Ptr">>>>,
     NSEC |-> <<<<"value", "NextDomain">>, <<"cloneSlice", "TypeBitMap">>>>,
     NSEC3 |-> <<<<"value", "Hash">>, <<"value", "Flags">>, <<"value", "Iterations">>,
             <<"value", "SaltLength">>, <<"value", "Salt">>, <<"value", "HashLength">>,
             <<"value", "NextDomain">>, <<"cloneSlice", "TypeBitMap">>>>,
     NSEC3PARAM |-> <<<<"value", "Hash">>, <<"value", "Flags">>, <<"value", "Iterations">>,
             <<"value", "SaltLength">>, <<"value", "Salt">>>>,
     NULL |-> <<<<"value", "Data">>>>,
     NXNAME |-> <<>>]

Copy_NXT_TALINK ==
    [NXT |-> <<<<"embedded", "NSEC">>>>,
     OPENPGPKEY |-> <<<<"value", "PublicKey">>>>,
     OPT |-> <<<<"copyEach", "Option">>>>,
     PTR |-> <<<<"value", "Ptr">>>>,
     PX |-> <<<<"value", "Preference">>, <<"value", "Map822">>, <<"value", "Mapx400">>>>,
     RESINFO |-> <<<<"cloneSlice", "Txt">>>>,
     RFC3597 |-> <<<<"value", "Rdata">>>>,
     RKEY |-> <<<<"value", "Flags">>, <<"value", "Protocol">>, <<"value", "Algorithm">>,
             <<"value", "PublicKey">>>>,
     RP |-> <<<<"value", "Mbox">>, <<"value", "Txt">>>>,
     RRSIG |-> <<<<"value", "TypeCovered">>, <<"value", "Algorithm">>, <<"value", "Labels">>,
             <<"value", "OrigTtl">>, <<"value", "Expiration">>, <<"value", "Inception">>,
             <<"value", "KeyTag">>, <<"value", "SignerName">>, <<"value", "Signature">>>>,
     RT |-> <<<<"value", "Preference">>, <<"value", "Host">>>>,
     SIG |-> <<<<"embedded", "RRSIG">>>>,
     SMIMEA |-> <<<<"value", "Usage">>, <<"value", "Selector">>, <<"value", "MatchingType">>,
             <<"value", "Certificate">>>>,
     SOA |-> <<<<"value", "Ns">>, <<"value", "Mbox">>, <<"value", "Serial">>, <<"value", "Refresh">>,
             <<"value", "Retry">>, <<"value", "Expire">>, <<"value", "Minttl">>>>,
     SPF |-> <<<<"cloneSlice", "Txt">>>>,
     SRV |-> <<<<"value", "Priority">>, <<"value", "Weight">>, <<"value", "Port">>,
             <<"value", "Target">>>>,
     SSHFP |-> <<<<"value", "Algorithm">>, <<"value", "Type">>, <<"value", "FingerPrint">>>>,
     SVCB |-> <<<<"value", "Priority">>, <<"value", "Target">>, <<"copyEach", "Value">>>>,
     TA |-> <<<<"value", "KeyTag">>, <<"value", "Algorithm">>, <<"value", "DigestType">>,
             <<"value", "Digest">>>>,
     TALINK |-> <<<<"value", "PreviousName">>, <<"value", "NextName">>>>]

Copy_TKEY_TSIG ==
    [TKEY |-> <<<<"value", "Algorithm">>, <<"value", "Inception">>, <<"value", "Expiration">>,
             <<"value", "Mode">>, <<"value", "Error">>, <<"value", "KeySize">>, <<"value", "Key">>,
             <<"value", "OtherLen">>, <<"value", "OtherData">>>>,
     TLSA |-> <<<<"value", "Usage">>, <<"value", "Selector">>, <<"value", "MatchingType">>,
             <<"value", "Certificate">>>>,
     TSIG |-> <<<<"value", "Algorithm">>, <<"value", "TimeSigned">>, <<"value", "Fudge">>,
             <<"value", "MACSize">>, <<"value", "MAC">>, <<"value", "OrigId">>, <<"value", "Error">>,
             <<"value", "OtherLen">>, <<"value", "OtherData">>>>]

\* Mutant: the copy keeps the slice of the original.
Copy_TXT_Shared == [TXT |-> <<<<"value", "Txt">>>>]

Copy_TXT == [TXT |-> <<<<"cloneSlice", "Txt">>>>]

Copy_UID_ZONEMD ==
    [UID |-> <<<<"value", "Uid">>>>,
     UINFO |-> <<<<"value", "Uinfo">>>>,
     URI |-> <<<<"value", "Priority">>, <<"value", "Weight">>, <<"value", "Target">>>>,
     X25 |-> <<<<"value", "PSDNAddress">>>>,
     ZONEMD |-> <<<<"value", "Serial">>, <<"value", "Scheme">>, <<"value", "Hash">>,
             <<"value", "Digest">>>>]

CopyTable ==
    Copy_A_HIP @@ Copy_HTTPS_NXNAME @@ Copy_NXT_TALINK @@ Copy_TKEY_TSIG @@ Copy_TXT @@ Copy_UID_ZONEMD

-----------------------------------------------------------------------------
\* func (r1 *T) isDuplicate: how each field of the two records is compared.

Dup_A_CDNSKEY ==
    [A |-> <<<<"IPEqual", "A">>>>,
     AAAA |-> <<<<"IPEqual", "AAAA">>>>,
     AFSDB |-> <<<<"equal", "Subtype">>, <<"isDuplicateName", "Hostname">>>>,
     AMTRELAY |-> <<<<"equal", "Precedence">>, <<"equal", "GatewayType">>,
             <<"gatewayEqual", "GatewayHost">>>>,
     ANY |-> <<>>,
     APL |-> <<<<"equalsEach", "Prefixes">>>>,
     AVC |-> <<<<"equalEach", "Txt">>>>,
     CAA |-> <<<<"equal", "Flag">>, <<"equal", "Tag">>, <<"equal", "Value">>>>,
     CDNSKEY |-> <<<<"equal", "Flags">>, <<"equal", "Protocol">>, <<"equal", "Algorithm">>,
             <<"equal", "PublicKey">>>>]

Dup_CDS_DNSKEY ==
    [CDS |-> <<<<"equal", "KeyTag">>, <<"equal", "Algorithm">>, <<"equal", "DigestType">>,
             <<"equal", "Digest">>>>,
     CERT |-> <<<<"equal", "Type">>, <<"equal", "KeyTag">>, <<"equal", "Algorithm">>,
             <<"equal", "Certificate">>>>,
     CNAME |-> <<<<"isDuplicateName", "Target">>>>,
     CSYNC |-> <<<<"equal", "Serial">>, <<"equal", "Flags">>, <<"equalEach", "TypeBitMap">>>>,
     DHCID |-> <<<<"equal", "Digest">>>>,
     DLV |-> <<<<"equal", "KeyTag">>, <<"equal", "Algorithm">>, <<"equal", "DigestType">>,
             <<"equal", "Digest">>>>,
     DNAME |-> <<<<"isDuplicateName", "Target">>>>,
     DNSKEY |-> <<<<"equal", "Flags">>, <<"equal", "Protocol">>, <<"equal", "Algorithm">>,
             <<"equal", "PublicKey">>>>]

Dup_DS_HIP ==
    [DS |-> <<<<"equal", "KeyTag">>, <<"equal", "Algorithm">>, <<"equal", "DigestType">>,
             <<"equal", "Digest">>>>,
     EID |-> <<<<"equal", "Endpoint">>>>,
     EUI48 |-> <<<<"equal", "Address">>>>,
     EUI64 |-> <<<<"equal", "Address">>>>,
     GID |-> <<<<"equal", "Gid">>>>,
     GPOS |-> <<<<"equal", "Longitude">>, <<"equal", "Latitude">>, <<"equal", "Altitude">>>>,
     HINFO |-> <<<<"equal", "Cpu">>, <<"equal", "Os">>>>,
     HIP |-> <<<<"equal", "HitLength">>, <<"equal", "PublicKeyAlgorithm">>,
             <<"equal", "PublicKeyLength">>, <<"equal", "Hit">>, <<"equal", "PublicKey">>,
             <<"isDuplicateNameEach", "RendezvousServers">>>>]

Dup_HTTPS_L64 ==
    [HTTPS |-> <<<<"equal", "Priority">>, <<"isDuplicateName", "Target">>,
             <<"areSVCBPairArraysEqual", "Value">>>>,
     IPSECKEY |-> <<<<"equal", "Precedence">>, <<"equal", "GatewayType">>, <<"equal", "Algorithm">>,
             <<"gatewayEqual", "GatewayHost">>, <<"equal", "PublicKey">>>>,
     ISDN |-> <<<<"equal", "Address">>, <<"equal", "SubAddress">>>>,
     KEY |-> <<<<"equal", "Flags">>, <<"equal", "Protocol">>, <<"equal", "Algorithm">>,
             <<"equal", "PublicKey">>>>,
     KX |-> <<<<"equal", "Preference">>, <<"isDuplicateName", "Exchanger">>>>,
     L32 |-> <<<<"equal", "Preference">>, <<"IPEqual", "Locator32">>>>,
     L64 |-> <<<<"equal", "Preference">>, <<"equal", "Locator64">>>>]

Dup_LOC_MX ==
    [LOC |-> <<<<"equal", "Version">>, <<"equal", "Size">>, <<"equal", "HorizPre">>,
             <<"equal", "VertPre">>, <<"equal", "Latitude">>, <<"equal", "Longitude">>,
             <<"equal", "Altitude">>>>,
     LP |-> <<<<"equal", "Preference">>, <<"isDuplicateName", "Fqdn">>>>,
     MB |-> <<<<"isDuplicateName", "Mb">>>>,
     MD |-> <<<<"isDuplicateName", "Md">>>>,
     MF |-> <<<<"isDuplicateName", "Mf">>>>,
     MG |-> <<<<"isDuplicateName", "Mg">>>>,
     MINFO |-> <<<<"isDuplicateName", "Rmail">>, <<"isDuplicateName", "Email">>>>,
     MR |-> <<<<"isDuplicateName", "Mr">>>>,
     MX |-> <<<<"equal", "Preference">>, <<"isDuplicateName", "Mx">>>>]

Dup_NAPTR_NSEC ==
    [NAPTR |-> <<<<"equal", "Order">>, <<"equal", "Preference">>, <<"equal", "Flags">>,
             <<"equal", "Service">>, <<"equal", "Regexp">>, <<"isDuplicateName", "Replacement">>>>,
     NID |-> <<<<"equal", "Preference">>, <<"equal", "NodeID">>>>,
     NIMLOC |-> <<<<"equal", "Locator">>>>,
     NINFO |-> <<<<"equalEach", "ZSData">>>>,
     NS |-> <<<<"isDuplicateName", "Ns">>>>,
     NSAPPTR |-> <<<<"isDuplicateName", "Ptr">>>>,
     NSEC |-> <<<<"isDuplicateName", "NextDomain">>, <<"equalEach", "TypeBitMap">>>>]

Dup_NSEC3_PX ==
    [NSEC3 |-> <<<<"equal", "Hash">>, <<"equal", "Flags">>, <<"equal", "Iterations">>,
             <<"equal", "SaltLength">>, <<"equal", "Salt">>, <<"equal", "HashLength">>,
             <<"equal", "NextDomain">>, <<"equalEach", "TypeBitMap">>>>,
     NSEC3PARAM |-> <<<<"equal", "Hash">>, <<"equal", "Flags">>, <<"equal", "Iterations">>,
             <<"equal", "SaltLength">>, <<"equal", "Salt">>>>,
     NULL |-> <<<<"equal", "Data">>>>,
     NXNAME |-> <<>>,
     NXT |-> <<<<"isDuplicateName", "NextDomain">>, <<"equalEach", "TypeBitMap">>>>,
     OPENPGPKEY |-> <<<<"equal", "PublicKey">>>>,
     PTR |-> <<<<"isDuplicateName", "Ptr">>>>,
     PX |-> <<<<"equal", "Preference">>, <<"isDuplicateName", "Map822">>,
             <<"isDuplicateName", "Mapx400">>>>]

Dup_RESINFO_RT ==
    [RESINFO |-> <<<<"equalEach", "Txt">>>>,
     RFC3597 |-> <<<<"equal", "Rdata">>>>,
     RKEY |-> <<<<"equal", "Flags">>, <<"equal", "Protocol">>, <<"equal", "Algorithm">>,
             <<"equal", "PublicKey">>>>,
     RP |-> <<<<"isDuplicateName", "Mbox">>, <<"isDuplicateName", "Txt">>>>,
     RRSIG |-> <<<<"equal", "TypeCovered">>, <<"equal", "Algorithm">>, <<"equal", "Labels">>,
             <<"equal", "OrigTtl">>, <<"equal", "Expiration">>, <<"equal", "Inception">>,
             <<"equal", "KeyTag">>, <<"isDuplicateName", "SignerName">>, <<"equal", "Signature">>>>,
     RT |-> <<<<"equal", "Preference">>, <<"isDuplicateName", "Host">>>>]

Dup_SIG_SSHFP ==
    [SIG |-> <<<<"equal", "TypeCovered">>, <<"equal", "Algorithm">>, <<"equal", "Labels">>,
             <<"equal", "OrigTtl">>, <<"equal", "Expiration">>, <<"equal", "Inception">>,
             <<"equal", "KeyTag">>, <<"isDuplicateName", "SignerName">>, <<"equal", "Signature">>>>,
     SMIMEA |-> <<<<"equal", "Usage">>, <<"equal", "Selector">>, <<"equal", "MatchingType">>,
             <<"equal", "Certificate">>>>,
     SOA |-> <<<<"isDuplicateName", "Ns">>, <<"isDuplicateName", "Mbox">>, <<"equal", "Serial">>,
             <<"equal", "Refresh">>, <<"equal", "Retry">>, <<"equal", "Expire">>,
             <<"equal", "Minttl">>>>,
     SPF |-> <<<<"equalEach", "Txt">>>>,
     SRV |-> <<<<"equal", "Priority">>, <<"equal", "Weight">>, <<"equal", "Port">>,
             <<"isDuplicateName", "Target">>>>,
     SSHFP |-> <<<<"equal", "Algorithm">>, <<"equal", "Type">>, <<"equal", "FingerPrint">>>>]

Dup_SVCB_TSIG ==
    [SVCB |-> <<<<"equal", "Priority">>, <<"isDuplicateName", "Target">>,
             <<"areSVCBPairArraysEqual", "Value">>>>,
     TA |-> <<<<"equal", "KeyTag">>, <<"equal", "Algorithm">>, <<"equal", "DigestType">>,
             <<"equal", "Digest">>>>,
     TALINK |-> <<<<"isDuplicateName", "PreviousName">>, <<"isDuplicateName", "NextName">>>>,
     TKEY |-> <<<<"isDuplicateName", "Algorithm">>, <<"equal", "Inception">>,
             <<"equal", "Expiration">>, <<"equal", "Mode">>, <<"equal", "Error">>,
             <<"equal", "KeySize">>, <<"equal", "Key">>, <<"equal", "OtherLen">>,
             <<"equal", "OtherData">>>>,
     TLSA |-> <<<<"equal", "Usage">>, <<"equal", "Selector">>, <<"equal", "MatchingType">>,
             <<"equal", "Certificate">>>>,
     TSIG |-> <<<<"isDuplicateName", "Algorithm">>, <<"equal", "TimeSigned">>, <<"equal", "Fudge">>,
             <<"equal", "MACSize">>, <<"equal", "MAC">>, <<"equal", "OrigId">>, <<"equal", "Error">>,
             <<"equal", "OtherLen">>, <<"equal", "OtherData">>>>]

Dup_TXT_ZONEMD ==
    [TXT |-> <<<<"equalEach", "Txt">>>>,
     UID |-> <<<<"equal", "Uid">>>>,
     UINFO |-> <<<<"equal", "Uinfo">>>>,
     URI |-> <<<<"equal", "Priority">>, <<"equal", "Weight">>, <<"equal", "Target">>>>,
     X25 |-> <<<<"equal", "PSDNAddress">>>>,
     ZONEMD |-> <<<<"equal", "Serial">>, <<"equal", "Scheme">>, <<"equal", "Hash">>,
             <<"equal", "Digest">>>>]

DupTable ==
    Dup_A_CDNSKEY @@ Dup_CDS_DNSKEY @@ Dup_DS_HIP @@ Dup_HTTPS_L64 @@ Dup_LOC_MX @@ Dup_NAPTR_NSEC
    @@ Dup_NSEC3_PX @@ Dup_RESINFO_RT @@ Dup_SIG_SSHFP @@ Dup_SVCB_TSIG @@ Dup_TXT_ZONEMD

=============================================================================
