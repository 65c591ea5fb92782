--------------------------- MODULE GeoLookup ---------------------------
(* Two readers of what is known about an address: the screening asks for  *)
(* the organisation that holds it (crates/services/src/cloak.rs:          *)
(* lookup_asn_org), the visit log for country, place and ISP              *)
(* (crates/services/src/geo.rs).  Each parses the IP-to-ASN file into     *)
(* ranges of its own, when it first needs it, and searches them by        *)
(* bisection; both use the table ip_geo_ranges too, in different orders;  *)
(* the visit log asks neither for what a header of the request says.      *)
(* Addresses are numbers, "" is a value that is missing.                  *)
EXTENDS Naturals, Sequences, TLC

CONSTANTS
    Addresses,       \* the addresses, an interval of numbers
    Networks,        \* nested networks the table may have a row for
    MaxLines         \* bound on the lines of a file

NoHit == [country |-> "", place |-> "", isp |-> ""]
OrElse(a, b) == IF a # "" THEN a ELSE b
Covers(range, ip) == range.start <= ip /\ ip <= range.end

------------------------------------------------------------------------
(* The file: a sequence of lines [start, end, country, org], in any order. *)

ByStart(ranges) == SortSeq(ranges, LAMBDA a, b : a.start < b.start)

(* Variant: the screening keeps lines that name nobody.                    *)
OrgRangesAll(lines) == ByStart(SelectSeq(lines, LAMBDA l : l.start <= l.end))

(* load_ip2asn_ranges of the screening keeps lines that name somebody,    *)
(* load_asn_ranges of the visit log also those that name a country only.  *)
OrgRanges(lines) ==
    ByStart(SelectSeq(lines, LAMBDA l : l.org # "" /\ l.start <= l.end))
GeoRanges(lines) ==
    ByStart(SelectSeq(lines, LAMBDA l : (l.country # "" \/ l.org # "") /\ l.start <= l.end))

(* Variant: the lower half loses its last range.                           *)
BisectLowerShort(ranges, ip) ==
    LET find[lo \in 0 .. Len(ranges), hi \in 0 .. Len(ranges)] ==
            IF lo >= hi THEN 0
            ELSE LET mid == (lo + hi) \div 2  item == ranges[mid + 1] IN
                 IF ip < item.start THEN find[lo, IF mid > 0 THEN mid - 1 ELSE 0]
                 ELSE IF ip > item.end THEN find[mid + 1, hi] ELSE mid + 1
    IN  find[0, Len(ranges)]

(* The position of the range found, or 0.                                 *)
Bisect(ranges, ip) ==
    LET find[lo \in 0 .. Len(ranges), hi \in 0 .. Len(ranges)] ==
            IF lo >= hi THEN 0
            ELSE LET mid == (lo + hi) \div 2  item == ranges[mid + 1] IN
                 IF ip < item.start THEN find[lo, mid]
                 ELSE IF ip > item.end THEN find[mid + 1, hi] ELSE mid + 1
    IN  find[0, Len(ranges)]

------------------------------------------------------------------------
(* The table: rows [start, end, country, place, isp] of nested networks.   *)

Size(row) == row.end - row.start
MostSpecific(rows) == CHOOSE r \in rows : \A q \in rows : Size(r) <= Size(q)

(* lookup_asn_org: the file first, then the closest row that has an ISP.   *)
OrgOf(lines, rows, ip) ==
    LET ranges == OrgRanges(lines)
        at == Bisect(ranges, ip)
        named == {r \in rows : Covers(r, ip) /\ r.isp # ""}
    IN  IF at # 0 THEN ranges[at].org
        ELSE IF named # {} THEN MostSpecific(named).isp ELSE ""

(* normalize_isp gives the networks of a carrier the carrier's name, and   *)
(* cuts a name that is too long: of either kind, one name and what becomes *)
(* of it.                                                                  *)
Shortened == [chinanet |-> "telecom", overlong |-> "over"]
Normalize(org) == IF org \in DOMAIN Shortened THEN Shortened[org] ELSE org

(* GeoFileCache::lookup; city is what the city database says, or NoHit.    *)
FileHit(lines, city, ip) ==
    LET ranges == GeoRanges(lines)
        at == Bisect(ranges, ip)
    IN  [country |-> OrElse(city.country, IF at # 0 THEN ranges[at].country ELSE ""),
         place |-> city.place,
         isp |-> IF at # 0 THEN Normalize(ranges[at].org) ELSE ""]

(* lookup and merge_geo_hits: the closest row first, whatever it says, and *)
(* the files for what it leaves open.                                      *)
GeoOf(lines, city, rows, ip) ==
    LET covering == {r \in rows : Covers(r, ip)}
        db == IF covering = {} THEN NoHit ELSE MostSpecific(covering)
        file == FileHit(lines, city, ip)
    IN  [f \in DOMAIN NoHit |-> OrElse(db[f], file[f])]

(* build_visit_input: a header that names the ISP wins; if the query of    *)
(* the table fails, lookup returns before it reads the file.               *)
IspLogged(header, failed, lines, city, rows, ip) ==
    OrElse(header, IF failed THEN "" ELSE GeoOf(lines, city, rows, ip).isp)

------------------------------------------------------------------------
(* The inputs: files whose lines do not overlap, in every order, and       *)
(* tables of nested networks.                                              *)
Apart(k, l) == k.end < l.start \/ l.end < k.start
Lines(countries, orgs) ==
    {l \in [start : Addresses, end : Addresses, country : countries, org : orgs] :
        l.start <= l.end}
Files(lines, count) ==
    {f \in UNION {[1 .. n -> lines] : n \in 0 .. count} :
        \A i, j \in DOMAIN f : i # j => Apart(f[i], f[j])}
Tables ==
    {{[start |-> n[1], end |-> n[2], country |-> "", place |-> "", isp |-> t[n]] :
        n \in DOMAIN t} :
      t \in UNION {[N -> {"", "of_row"}] : N \in SUBSET Networks}}

(* In a file whose lines do not overlap, whatever their order, bisection   *)
(* finds the line about an address if there is one, and no other.          *)
LinesAreFound ==
    \A f \in Files(Lines({""}, {"of_file"}), MaxLines), ip \in Addresses :
        LET ranges == OrgRanges(f) IN
        {i \in DOMAIN ranges : Covers(ranges[i], ip)} = {Bisect(ranges, ip)} \ {0}

(* What the file may have said when one of the two loaded it: all it says  *)
(* in the end, or some of the lines.                                       *)
Loaded(f) == {f} \cup {SubSeq(f, i, j) : i \in 1 .. 2, j \in 0 .. Len(f)}
About(f, ip) == {f[i] : i \in {j \in DOMAIN f : Covers(f[j], ip)}}

(* The ISP a visit is logged with is the organisation its screening judged,*)
(* or the short name of it, although the two parse, filter and fall back on*)
(* their own, unless a header of the request names one, or the visit log's *)
(* query failed, or the file was replaced, as regards this address, between*)
(* the times the two loaded it, or the table has an ISP for the address and*)
(* either the file names an organisation too, or the closest row leaves the*)
(* ISP open.                                                               *)
SameOrganisation ==
    \A final \in Files(Lines({"", "cn"}, {"", "chinanet"}), 2), rows \in Tables, ip \in Addresses :
      \A f \in Loaded(final) :
        LET covering == {r \in rows : Covers(r, ip)}
            judged == OrgOf(f, rows, ip)
        IN  \A g \in Loaded(final), header \in {"", "of_header"}, failed \in BOOLEAN :
              IspLogged(header, failed, g, NoHit, rows, ip) \notin {judged, Normalize(judged)} =>
                \/ header # "" \/ failed
                \/ About(f, ip) # About(g, ip)
                \/ /\ \E r \in covering : r.isp # ""
                   /\ \/ \E line \in About(f, ip) : line.org # ""
                      \/ MostSpecific(covering).isp = ""
=============================================================================
