--------------------------- MODULE HuffmanTables ---------------------------
(***************************************************************************)
(* The tables of huffmantable_q3.h and bitswap.h.                          *)
(***************************************************************************)
EXTENDS Integers, Sequences

\* The length of the code of the bytes 0, 1, ... and the code, in the upper bits of a
\* short.
huffenctable_q3 == <<
    <<2, \h4000>>, <<5, \hd800>>, <<7, \h1200>>, <<7, \h3600>>, <<8, \h8500>>,
    <<8, \h8800>>, <<7, \h0800>>, <<6, \hfc00>>, <<5, \ha800>>, <<7, \h2c00>>,
    <<7, \h9600>>, <<7, \hd000>>, <<7, \hc800>>, <<6, \hb400>>, <<8, \h9c00>>,
    <<9, \h3500>>, <<7, \ha400>>, <<9, \h1a00>>, <<9, \h0f80>>, <<9, \h1f80>>,
    <<10, \hbb80>>, <<10, \hcfc0>>, <<10, \hd440>>, <<10, \hc4c0>>, <<9, \h2f00>>,
    <<10, \hb180>>, <<10, \hd500>>, <<10, \hc6c0>>, <<10, \hd780>>, <<8, \hc200>>,
    <<9, \hf200>>, <<8, \h2b00>>, <<6, \hec00>>, <<10, \hcb00>>, <<9, \h2200>>,
    <<10, \hb340>>, <<10, \ha3c0>>, <<10, \h9fc0>>, <<10, \hb0c0>>, <<10, \hb3c0>>,
    <<9, \h2900>>, <<10, \h3580>>, <<10, \hcc00>>, <<10, \h2800>>, <<10, \h8e40>>,
    <<10, \h0f40>>, <<9, \h2f80>>, <<8, \h1e00>>, <<7, \he400>>, <<8, \hc300>>,
    <<8, \hf700>>, <<9, \he980>>, <<8, \hca00>>, <<8, \h8d00>>, <<9, \hb000>>,
    <<9, \h8680>>, <<9, \he000>>, <<9, \h8f00>>, <<9, \h9980>>, <<10, \h8980>>,
    <<10, \hc480>>, <<9, \h3d00>>, <<9, \h2280>>, <<10, \hcf80>>, <<8, \hf300>>,
    <<7, \h0a00>>, <<7, \h3e00>>, <<7, \h2000>>, <<8, \h8400>>, <<8, \h8a00>>,
    <<9, \h0100>>, <<9, \h0e00>>, <<9, \hbc80>>, <<10, \hc600>>, <<10, \heb40>>,
    <<10, \h8ec0>>, <<9, \hb980>>, <<10, \hd540>>, <<10, \he380>>, <<10, \hccc0>>,
    <<9, \h3480>>, <<10, \hb900>>, <<10, \hd680>>, <<10, \hd6c0>>, <<10, \hcb80>>,
    <<10, \h8e80>>, <<10, \hc780>>, <<10, \hcc40>>, <<10, \heb00>>, <<10, \hd340>>,
    <<9, \h0e80>>, <<9, \h1500>>, <<9, \he300>>, <<9, \ha080>>, <<9, \hd700>>,
    <<8, \h1b00>>, <<9, \hcf00>>, <<8, \h3c00>>, <<9, \hd580>>, <<9, \hf180>>,
    <<9, \he900>>, <<7, \h0c00>>, <<8, \h8200>>, <<9, \hf280>>, <<6, \h3800>>,
    <<8, \h1400>>, <<9, \hbd00>>, <<9, \h2300>>, <<8, \h1900>>, <<9, \hf100>>,
    <<8, \h3000>>, <<8, \hcd00>>, <<8, \ha100>>, <<8, \h3100>>, <<8, \he200>>,
    <<8, \h9e00>>, <<7, \h9a00>>, <<7, \h0200>>, <<8, \he800>>, <<8, \h9800>>,
    <<8, \hd200>>, <<8, \h8700>>, <<8, \hc500>>, <<8, \hce00>>, <<8, \hf600>>,
    <<7, \h1600>>, <<7, \h1000>>, <<7, \ha600>>, <<6, \hf800>>, <<7, \h9400>>,
    <<7, \h3200>>, <<7, \hbe00>>, <<8, \hf000>>, <<8, \hc100>>, <<8, \h8000>>,
    <<8, \he100>>, <<8, \he600>>, <<8, \he700>>, <<8, \hea00>>, <<8, \h2e00>>,
    <<9, \hd380>>, <<9, \h2380>>, <<9, \h8100>>, <<9, \hb200>>, <<9, \h8c80>>,
    <<10, \hc680>>, <<9, \h0180>>, <<10, \hebc0>>, <<10, \hd400>>, <<10, \ha280>>,
    <<10, \hd600>>, <<10, \hbc00>>, <<10, \hd4c0>>, <<10, \h9f00>>, <<10, \hc700>>,
    <<10, \ha240>>, <<10, \hd480>>, <<10, \h8c00>>, <<10, \hd7c0>>, <<10, \h9d80>>,
    <<9, \h2880>>, <<10, \h9f80>>, <<10, \hcc80>>, <<10, \h3400>>, <<10, \hbb40>>,
    <<10, \h8380>>, <<10, \hb8c0>>, <<10, \h8b80>>, <<9, \h1c80>>, <<10, \h8600>>,
    <<10, \hc740>>, <<10, \ha2c0>>, <<10, \hd640>>, <<10, \hb300>>, <<10, \hd300>>,
    <<10, \hb280>>, <<9, \h1c00>>, <<10, \h83c0>>, <<10, \hbc40>>, <<10, \h3dc0>>,
    <<10, \ha300>>, <<10, \h35c0>>, <<10, \hc7c0>>, <<10, \h9940>>, <<10, \hcbc0>>,
    <<10, \h2840>>, <<10, \hc040>>, <<10, \h3d80>>, <<10, \hb940>>, <<10, \h81c0>>,
    <<10, \hc640>>, <<10, \hb100>>, <<8, \h2a00>>, <<9, \hc080>>, <<8, \hba00>>,
    <<6, \h0400>>, <<7, \h9000>>, <<10, \he3c0>>, <<10, \he0c0>>, <<8, \h1d00>>,
    <<9, \h8f80>>, <<10, \h3440>>, <<10, \ha200>>, <<10, \hc000>>, <<10, \hb880>>,
    <<10, \ha380>>, <<10, \hb2c0>>, <<10, \hb800>>, <<9, \h0000>>, <<10, \h9dc0>>,
    <<10, \hbb00>>, <<10, \h8180>>, <<10, \hb080>>, <<10, \h9d00>>, <<10, \hb380>>,
    <<10, \h29c0>>, <<10, \hbd80>>, <<10, \h2980>>, <<10, \hb1c0>>, <<10, \h1a80>>,
    <<10, \hbdc0>>, <<10, \h8300>>, <<10, \hbbc0>>, <<10, \h1f00>>, <<9, \h8b00>>,
    <<9, \h8900>>, <<10, \h9900>>, <<10, \h1f40>>, <<10, \hc400>>, <<10, \h8e00>>,
    <<10, \hcb40>>, <<10, \h89c0>>, <<7, \h9200>>, <<10, \h8c40>>, <<10, \he080>>,
    <<10, \h8640>>, <<10, \hc440>>, <<8, \h1800>>, <<10, \ha040>>, <<10, \h8340>>,
    <<10, \heb80>>, <<10, \h0f00>>, <<10, \ha340>>, <<10, \h00c0>>, <<10, \h8bc0>>,
    <<10, \h15c0>>, <<10, \hb840>>, <<11, \h00a0>>, <<10, \ha000>>, <<10, \h1ac0>>,
    <<10, \h9f40>>, <<10, \h1580>>, <<10, \h9d40>>, <<10, \hb140>>, <<7, \hf400>>,
    <<6, \h2400>>
>>

\* The table for decoding in short: the byte and the length of its code, in the order
\* of the codes.  One code stands for no byte.
Decoding == <<
    <<208, 9>>, <<256, 11>>, <<247, 11>>, <<243, 10>>, <<70, 9>>, <<146, 9>>,
    <<117, 7>>, <<195, 6>>, <<6, 7>>, <<65, 7>>, <<101, 7>>, <<71, 9>>, <<90, 9>>,
    <<241, 10>>, <<45, 10>>, <<18, 9>>, <<126, 7>>, <<2, 7>>, <<105, 8>>, <<91, 9>>,
    <<251, 10>>, <<245, 10>>, <<125, 7>>, <<237, 8>>, <<108, 8>>, <<17, 9>>,
    <<219, 10>>, <<249, 10>>, <<95, 8>>, <<176, 9>>, <<168, 9>>, <<199, 8>>, <<47, 8>>,
    <<223, 10>>, <<227, 10>>, <<19, 9>>, <<67, 7>>, <<34, 9>>, <<62, 9>>, <<107, 9>>,
    <<141, 9>>, <<255, 6>>, <<43, 10>>, <<185, 10>>, <<160, 9>>, <<40, 9>>, <<217, 10>>,
    <<215, 10>>, <<192, 8>>, <<31, 8>>, <<9, 7>>, <<139, 8>>, <<24, 9>>, <<46, 9>>,
    <<110, 8>>, <<113, 8>>, <<130, 7>>, <<163, 10>>, <<201, 10>>, <<80, 9>>, <<15, 9>>,
    <<41, 10>>, <<181, 10>>, <<3, 7>>, <<104, 6>>, <<97, 8>>, <<61, 9>>, <<187, 10>>,
    <<179, 10>>, <<66, 7>>, <<0, 2>>, <<134, 8>>, <<142, 9>>, <<211, 10>>, <<189, 10>>,
    <<102, 8>>, <<221, 10>>, <<239, 10>>, <<165, 10>>, <<177, 10>>, <<68, 8>>, <<4, 8>>,
    <<169, 10>>, <<235, 10>>, <<55, 9>>, <<121, 8>>, <<5, 8>>, <<225, 9>>, <<59, 10>>,
    <<231, 10>>, <<69, 8>>, <<224, 9>>, <<167, 10>>, <<244, 10>>, <<157, 10>>,
    <<233, 10>>, <<144, 9>>, <<53, 8>>, <<229, 10>>, <<44, 10>>, <<85, 10>>, <<75, 10>>,
    <<57, 9>>, <<200, 9>>, <<196, 7>>, <<232, 7>>, <<129, 7>>, <<10, 7>>, <<119, 8>>,
    <<226, 10>>, <<183, 10>>, <<58, 9>>, <<116, 7>>, <<14, 8>>, <<213, 10>>,
    <<252, 10>>, <<159, 10>>, <<209, 10>>, <<115, 8>>, <<153, 10>>, <<250, 10>>,
    <<161, 10>>, <<37, 10>>, <<248, 10>>, <<238, 10>>, <<93, 9>>, <<112, 8>>,
    <<202, 10>>, <<155, 10>>, <<149, 10>>, <<171, 10>>, <<180, 10>>, <<242, 10>>,
    <<205, 10>>, <<36, 10>>, <<16, 7>>, <<127, 7>>, <<8, 5>>, <<54, 9>>, <<212, 10>>,
    <<38, 10>>, <<191, 10>>, <<253, 10>>, <<25, 10>>, <<218, 10>>, <<143, 9>>,
    <<175, 10>>, <<206, 10>>, <<173, 10>>, <<35, 10>>, <<214, 10>>, <<39, 10>>,
    <<13, 6>>, <<207, 10>>, <<246, 10>>, <<204, 10>>, <<166, 10>>, <<81, 10>>,
    <<188, 10>>, <<76, 9>>, <<194, 8>>, <<210, 10>>, <<164, 10>>, <<20, 10>>,
    <<222, 10>>, <<151, 10>>, <<178, 10>>, <<72, 9>>, <<106, 9>>, <<216, 10>>,
    <<220, 10>>, <<131, 7>>, <<203, 10>>, <<186, 10>>, <<193, 9>>, <<133, 8>>,
    <<29, 8>>, <<49, 8>>, <<228, 10>>, <<236, 10>>, <<60, 10>>, <<23, 10>>, <<122, 8>>,
    <<73, 10>>, <<190, 10>>, <<145, 10>>, <<27, 10>>, <<154, 10>>, <<170, 10>>,
    <<86, 10>>, <<182, 10>>, <<12, 7>>, <<52, 8>>, <<33, 10>>, <<230, 10>>, <<84, 10>>,
    <<184, 10>>, <<42, 10>>, <<87, 10>>, <<162, 10>>, <<79, 10>>, <<111, 8>>,
    <<123, 8>>, <<96, 9>>, <<63, 10>>, <<21, 10>>, <<11, 7>>, <<120, 8>>, <<174, 10>>,
    <<89, 10>>, <<140, 9>>, <<148, 10>>, <<22, 10>>, <<156, 10>>, <<152, 10>>,
    <<26, 10>>, <<77, 10>>, <<98, 9>>, <<150, 10>>, <<172, 10>>, <<82, 10>>, <<83, 10>>,
    <<94, 9>>, <<28, 10>>, <<158, 10>>, <<1, 5>>, <<56, 9>>, <<234, 10>>, <<198, 10>>,
    <<135, 8>>, <<114, 8>>, <<92, 9>>, <<78, 10>>, <<197, 10>>, <<48, 7>>, <<136, 8>>,
    <<137, 8>>, <<118, 8>>, <<100, 9>>, <<51, 9>>, <<138, 8>>, <<88, 10>>, <<74, 10>>,
    <<240, 10>>, <<147, 10>>, <<32, 6>>, <<132, 8>>, <<109, 9>>, <<99, 9>>, <<30, 9>>,
    <<103, 9>>, <<64, 8>>, <<254, 7>>, <<124, 8>>, <<50, 8>>, <<128, 6>>, <<7, 6>>
>>

\* An entry is repeated for every index of 11 bits that begins with its code; its value
\* is an unsigned char.  Part[i, k] is what the k-th 2 ^ i entries become.
huffdectable_q3 ==
  LET Part[i \in 0 .. 9, k \in 0 .. 511] ==
        IF i > 0 THEN Part[i - 1, 2 * k] \o Part[i - 1, 2 * k + 1]
        ELSE IF k >= Len(Decoding) THEN << >>
        ELSE LET entry == Decoding[k + 1]
             IN  [n \in 1 .. 2 ^ (11 - entry[2]) |-> <<entry[1] % 256, entry[2]>>]
  IN  Part[9, 0]

hufftables_q3 == [huffenctable |-> huffenctable_q3, huffdectable |-> huffdectable_q3]

\* The bit of weight 2 ^ i.
Bit(number, i) == (number \div 2 ^ i) % 2

\* Bytes with their bits in the opposite order.
bitswaptable ==
  [b \in 0 .. 255 |->
     128 * Bit(b, 0) + 64 * Bit(b, 1) + 32 * Bit(b, 2) + 16 * Bit(b, 3)
     + 8 * Bit(b, 4) + 4 * Bit(b, 5) + 2 * Bit(b, 6) + Bit(b, 7)]

=============================================================================
