------------------------------- MODULE MCTexts -------------------------------
(* C as it is written: comments, macros, included files and directives, what  *)
(* declarations may look like, and texts that are wrong.                     *)
EXTENDS Sequences, SequencesExt

Lines(lines) == FoldLeft(LAMBDA text, line : text \o line \o "\n", "", lines)

KlibText ==
  Lines(<<"#ifndef KLIB_H__",
    "#define KLIB_H__",
    "#include \"types.h\"",
    "char getc();",
    "int strcmp(const char *s1, const char *s2);",
    "int memset(char *dest, const char val, int n);",
    "int memcmp(const void *, const void *, int);",
    "extern int r[];",
    "#endif">>)
TypesText ==
  Lines(<<"#ifndef TYPES_H__",
    "#define TYPES_H__",
    "typedef unsigned char uint8_t;",
    "typedef int uint16_t;",
    "#endif">>)
ItselfText == "#include \"itself.h\"\n"
MCFiles == [name \in {"klib.h", "inc/types.h", "itself.h"} |->
              CASE name = "klib.h" -> KlibText [] name = "inc/types.h" -> TypesText [] name = "itself.h" -> ItselfText]
MCPaths == <<"inc">>

(* The kernel's functions, calls and structures of MCPrograms.                *)
KernelText ==
  Lines(<<"/* Parts of klib.c and mmu.c as they stand there. */",
    "#include \"klib.h\"",
    "#include <types.h>",
    "#define TEXT \"ABC\"",
    "#define PAGES 24",
    "extern uint8_t uart_buffer[8];",
    "extern unsigned char uart_buffer_size;",
    "extern unsigned char uart_buffer_rd_pos;",
    "char getc() {",
    "    char c = 0;",
    "    if(uart_buffer_size) {",
    "        uart_buffer_size--;",
    "        c = uart_buffer[uart_buffer_rd_pos];",
    "        uart_buffer_rd_pos++;",
    "    }",
    "    return c;",
    "}",
    "",
    "",
    "int strcmp(const char *s1, const char *s2)">>)
  \o Lines(<<"{",
    "\tconst unsigned char *c1 = (const unsigned char *)s1;",
    "\tconst unsigned char *c2 = (const unsigned char *)s2;",
    "\tunsigned char ch;",
    "\tint d = 0;",
    "",
    "\twhile (1) {",
    "\t\td = (int)(ch = *c1++) - (int)*c2++;",
    "\t\tif (d || !ch)",
    "\t\t\tbreak;",
    "\t}",
    "",
    "\treturn d;",
    "}",
    "",
    "",
    "int memset(char *dest, const char val, int n) {",
    "    int k = n;",
    "    while (k--) {",
    "        *dest = val;">>)
  \o Lines(<<"        dest++;",
    "    }",
    "    return n;",
    "}",
    "",
    "int memcpy(char *dest, const char *src, int n) {",
    "    int k = n;",
    "    while (k--) {",
    "        *dest = *src;",
    "        dest++;",
    "        src++;",
    "    }",
    "    return n;",
    "}",
    "",
    "int memcmp(const void *mem1, const void *mem2, int len)",
    "{",
    "        const signed char *p1 = mem1, *p2 = mem2;",
    "",
    "        if (!len)">>)
  \o Lines(<<"                return 0;",
    "",
    "        while (--len && *p1 == *p2) {",
    "                p1++;",
    "                p2++;",
    "        }",
    "        return *p1 - *p2;",
    "}",
    "",
    "unsigned char page_refcount[PAGES] = { 1, 1, 1, 1, 1, 1, 1, 1, 1, 1, 1, 1, 1, 1, 1, 1,",
    "                                       1, 1, 1, 1, 1 }; // 0x10 to 0x14 are in use",
    "unsigned char tlb_map[4] = { 01, 0x1 };",
    "",
    "unsigned char find_free_page() {",
    "    unsigned char i = 0x10;",
    "    while(1) {",
    "        if(page_refcount[i] == 0) {",
    "            return i;",
    "        }",
    "        if(i == 0xff) {">>)
  \o Lines(<<"            return 0;",
    "        }",
    "        i++;",
    "    }",
    "}",
    "",
    "unsigned char get_free_tlb() {",
    "    unsigned char i = 0x01;",
    "    while(1) {",
    "        if(tlb_map[i] == 0) {",
    "            tlb_map[i] = 1;",
    "            return i;",
    "        }",
    "        if(i == 0xff) {",
    "            return 0;",
    "        }",
    "        i++;",
    "    }",
    "}",
    "">>)
  \o Lines(<<"unsigned char page_refcount_inc(unsigned char page) {",
    "    page_refcount[page]++;",
    "    return page_refcount[page];",
    "}",
    "uint8_t uart_buffer[] = \"hi\\n\\0\\0\\0\\0\", uart_buffer_size, uart_buffer_rd_pos;",
    "unsigned fxnMul(unsigned a, unsigned b) {",
    "    unsigned res = 0;",
    "    unsigned mask = 1;",
    "    for(unsigned char i = 0; i < 16; i++) {",
    "        if(mask & a) {",
    "            res += b;",
    "        }",
    "        b = b << 1;",
    "        mask = mask << 1;",
    "    }",
    "    return res;",
    "}",
    "#ifndef KLIB_H__",
    "#error only if klib.h has not been read",
    "#else">>)
  \o Lines(<<"int r[8]; char dest[3*3] = TEXT, src[] = { \"ABD\" };",
    "#endif",
    "#ifdef DEBUG",
    "#define TRACE puts",
    "#ifdef VERBOSE",
    "#if LEVEL > 2",
    "#endif",
    "#elif 99999",
    "#endif",
    "this line is not read",
    "#else",
    "#define NOT_TRACED",
    "#endif",
    "int f(int a, int b) {",
    "    r[0] = !strcmp(dest, src); r[1] = !strcmp(src, src) - memcmp(dest, src, 2);",
    "    memset(dest + 5, 'Z', 3); memcpy(dest + 1, src, 4);",
    "    getc(); uart_buffer_size = 2; r[2] = getc();",
    "    r[3] = find_free_page(); page_refcount_inc(find_free_page());",
    "    r[4] = get_free_tlb();",
    "    return a * b + find_free_page();">>)
  \o Lines(<<"}">>)

CallingText ==
  Lines(<<"typedef int (*code)();",
    "int g; unsigned char h = 0xC8; int r[10];",
    "code chosen;",
    "enum { THREE = 1 + 2, FOUR }; enum sign { MINUS = -4 };",
    "int later(int a, unsigned char, int *), even(int);",
    "int add(int a, int b) { return a + b; }",
    "static int sub(int a, int b) { return a - b; }",
    "code table[] = { add, sub, later };",
    "unsigned char byte(unsigned char c) { return c + 'd'; }",
    "void set(int v) { g = v; if (v) return; g = 5; }",
    "int get(void) { return g; }",
    "int length(char s[]) { int n; for (n = 0; s[n]; n++) ; return n; }",
    "int fib(int n) { if (n < 2) return n; else return fib(n - 1) + fib(n - 2); }",
    "int odd(int n) { if (n == 0) return 0; return even(n - 1); }",
    "int even(int n) { if (!n) return 1; return odd(n - 1); }",
    "int twice(int how(int, int), int n) { return how(how(n, 1), n); }",
    "int later(int a, unsigned char c, int *p) { *p += c; return a ^ c; }",
    "int f(int a, int b)",
    "{",
    "  int x = add(a, b); extern int g; int sub(int, int);">>)
  \o Lines(<<"  r[0] = sub(add(x, a), sub(b, THREE + FOUR)); r[1] = fib(5) - x;",
    "  set(a); r[2] = get(); set(0); r[3] = x + get();",
    "  r[4] = length(\"Hip\") + length(\"\");",
    "  r[5] = even(4) | odd(3) << 1;",
    "  chosen = &sub; r[6] = (*chosen)(b, a) - twice(add, b);",
    "  r[7] = table[a & 1](x, THREE);",
    "  r[8] = ((int (*)(int, unsigned char, int *))table[2])(b, h, &x) + MINUS;",
    "  h = byte(h);",
    "  if (add(a, b)) { int x = 9; x += a; r[9] = x; }",
    "  return x + h;",
    "}">>)

StructuredText ==
  Lines(<<"/* Every structure of the program, packed to words, which changes nothing. */",
    "#pragma pack (push, 2)",
    "struct node { int value; struct node *next; };",
    "#pragma pack (pop)",
    "struct outer { unsigned char c;",
    "  struct inner { unsigned char k; int v[3]; } in; char t[3]; int *p; };",
    "#pragma pack ()",
    "typedef union both { int w; unsigned char b[3]; } both;",
    "typedef struct node node, *link;",
    "extern int r[], g;",
    "int r[12], g;",
    "struct outer o = { 1, { 2, { 3, -4 } }, { 'A', 'B', }, &g, }, flat = { 1, 2, 3, 4, 5, 6, 7, 8, r };",
    "node list[] = { { 10 }, { 20, r }, { 30, 0 } };",
    "int m[2][3] = { { 1, 2, 3 }, { 4 } }, lined[2][3] = { 1, 2, 3, 4, 5, 6 };",
    "char s[] = \"ABC\", roomy[2 * sizeof(int) + 2] = \"\\101\\x42\\C\";",
    "both u = { 0x1234 }, us[2];",
    "int braced = { 3 << 2 };",
    "link head = list;",
    "unsigned fxnMul(unsigned a, unsigned b) {",
    "  unsigned res = 0, mask = 1;">>)
  \o Lines(<<"  for (unsigned char i = 0; i < 16; i++) { if (mask & a) { res += b; } b = b << 1; mask = mask << 1; }",
    "  return res;",
    "}",
    "int total(link n) { int sum = 0; while (n) { sum += n->value; n = n->next; } return sum; }",
    "int f(int a, int b)",
    "{",
    "  int l[4]; struct outer mine; int i = a & 1, *p = l; struct outer *q;",
    "  list[0].next = &list[1]; list[1].next = head + 2;",
    "  r[0] = total(head); r[1] = head->next->value;",
    "  l[0] = a; l[1] = b; *(l + 2) = 77;",
    "  *p++ = a + 1; r[2] = *p - l[i]; ++p; r[3] = p - l; r[4] = p > l;",
    "  q = &mine; q->c = b; q->in.v[i] = a - 9; q->t[1] = o.c;",
    "  r[5] = mine.c + mine.in.v[i]; *o.p = a; o.in.v[i] += q->c;",
    "  m[i][1] = b; *m[1] += lined[1][i];",
    "  u.b[2] = b; us[i].b[1] = u.w; r[6] = u.b[1] + us[1].w;",
    "  s[i] = roomy[2] + i; r[7] = sizeof o - (sizeof(list) << 4);",
    "  r[8] = i[l] + braced; head = &list[i + 1]; --head;",
    "  r[9] = &list[2] - head; r[10] = !head + (head->next == head);",
    "  head->value++; --o.c; r[11] = (unsigned char)list[i].value;",
    "  return *l;">>)
  \o Lines(<<"}">>)

ScopedText ==
  Lines(<<"#pragma pack(1)",
    "struct tight { char c; int v; unsigned char *p; };",
    "#pragma pack()",
    "#line 40 \"scopes.c\"",
    "typedef int number, *pointer, (*action)(int, int);",
    "enum color { RED, GREEN = 5, BLUE, DARK = -1 } shade = BLUE;",
    "extern int table[]; extern struct tight packed;",
    "int line = __LINE__; char file[] = __FILE__, text[] = \"a\\tb\\\\\\\"\\1018\\x42\\r//\";",
    "unsigned wide = 0xFFFF, words = 'ab', octal = 0177777, many = 40000u; int minus = '\\xFF';",
    "#define CALLS calls /* a name\t*/  ++ // of another",
    "static int hidden(number x)",
    "{",
    "  static number calls = 10, *where = &shade;",
    "  { static number calls; calls--; table[0] += calls; *where -= 2; }",
    "  return CALLS + x;",
    "}",
    "int plus(int, int), plus(int a, int b);",
    "int table[3] = { RED, BLUE, sizeof(struct tight) }, plus(int a, int b) { return a + b; }",
    "struct tight packed;",
    "unsigned size = sizeof(int *[3]) + sizeof(char (*)[5]) + sizeof \"four\";">>)
  \o Lines(<<"int f(int a, int b)",
    "{",
    "  number x = a, *p = &x, y[BLUE - 4];",
    "  action act = plus;",
    "  typedef unsigned char byte;",
    "  byte c = 300;",
    "  int number = 4;",
    "  for (int i = 0, x = 3; i < 2; i++, x--) y[i] = x + number;",
    "  { int x = 5; { int x = 7; enum { RED = 100 }; table[1] += x + RED; } table[2] += x + RED; }",
    "  if (a == b) goto end;",
    "  packed.v = a; packed.c = 'A' + 1; packed.p = (byte *)&packed.v;",
    "  switch (shade) { case BLUE: case DARK: packed.c = '\\x7f'; break; case -4 + 8: *packed.p = '\\''; break; default: ; }",
    " byte: c++;",
    "  if (c == 45) goto byte;",
    " end:",
    "  return act(x, hidden(*p)) + y[1] + c;",
    "}">>)

WrongTexts ==
  <<"int x; char x;",
    "extern int t[3]; int t[4];",
    "int x() { return 1; } int x;",
    "int A; enum { A };",
    "typedef int T; int T;",
    "int f(int a); int f(char a) { return a; }",
    "int f(int a, int b); int f();",
    "int f(int a, int a) { return a; }",
    "int f(int) { return 1; }",
    "int f() { int x; char x; return 1; }",
    "int f() { int x; static int x; return 1; }",
    "struct s { int a; char a; };",
    "struct s { int a; }; struct s { int b; };",
    "struct s { int a; }; union s x;",
    "enum e { A }; struct e { int a; };",
    "struct s { int t[]; };",
    "struct s { int f(); };",
    "struct s { void v; };",
    "enum { A = 40000u };",
    "enum { A = 32767, B };",
    "int x; enum { A = x };",
    "void x;",
    "void t[3];",
    "int t[0];",
    "int t[3 - 4];",
    "int n; int t[n];",
    "int t[];",
    "int f()[3];",
    "int t[2]();",
    "int f()();",
    "typedef int t = 3;",
    "extern int x = 3;",
    "int f() = 3;",
    "int x { return 1; }",
    "typedef int f() { return 1; }",
    "int f() { int g() { return 1; } return 1; }",
    "int f() { static int g(); return 1; }",
    "int x;;",
    "return 1;",
    "int *;",
    "void f() { return 1; }",
    "int f() { return; }",
    "void f() { break; }",
    "void f() { continue; }",
    "void f(int a) { switch (a) { default: continue; } }",
    "void f() { case 1: ; }",
    "void f() { default: ; }",
    "void f(int a) { switch (a) { case 1: case 1 + 0: ; } }",
    "void f(int a) { switch (a) { case a: ; } }",
    "void f(int a) { switch (a) { default: ; default: ; } }",
    "void f() { goto nowhere; }",
    "void f() { here: ; here: ; }",
    "void f(int a) { if (a) { there: a = 1; } else { there: a = 2; } }",
    "void f(int a) { do break; while (a); break; }",
    "void g() { here: ; } void f() { goto here; }",
    "int x = 40000;",
    "int x = 65536u;",
    "int x = 0x;",
    "int x = 'abc';",
    "int x = '';",
    "char *s = \"abc\n\";",
    "int x = '\\400';",
    "int x = '\\x100';",
    "int x; @",
    "/* no end",
    "int x; // one line\n/*",
    "#if 1\n#endif",
    "#else",
    "#endif",
    "#ifdef A\n#else\n#else\n#endif",
    "#define A 1\n#define A 2",
    "#define A(x) x",
    "#include \"nowhere.h\"",
    "#include \"itself.h\"",
    "#include nowhere",
    "#pragma pack(3)",
    "#pragma pack(pop)",
    "#pragma pack(1",
    "#pragma once",
    "#define A 1 \n#undef A B",
    "#line x",
    "#nothing",
    "int x; #endif x",
    \* operands of the wrong types
    "int f() { return y; }",
    "void f() { 1 = 2; }",
    "void f(int x) { &x = &x; }",
    "void f(int x) { int *p; p = &(x + 1); }",
    "int f(int x) { return *x; }",
    "void g(); int f() { return g() + 1; }",
    "void g(); void f(int x) { x = g(); }",
    "void g(); void h(int x); void f() { h(g()); }",
    "struct inner { unsigned char k; int v[3]; }; int f(struct inner *p) { return *p + 1; }",
    "int *f(int *p) { return p + p; }",
    "int *f(int *p) { return 1 - p; }",
    "int f(int *p) { return p * 2; }",
    "int f(int *p, char *s) { return p - s; }",
    "int g(int a); int f() { return g + 1; }",
    "void *f(void *p) { return p + 1; }",
    "int f(int *p) { return p == 1; }",
    "int f(int *p) { return p < 1; }",
    "int g(int a); int f() { return g(1, 2); }",
    "int g(int a); int f() { return g(); }",
    "int f(int x) { return x(1); }",
    "int f() { return sizeof(void); }",
    "int f() { return sizeof(struct t); }",
    "struct inner { unsigned char k; int v[3]; }; int f(struct inner *p) { return p->b; }",
    "int f(int *p) { return p->a; }",
    "struct t; int f(struct t *p) { return p->a; }",
    "struct inner { unsigned char k; int v[3]; }; void f(int x) { (struct inner)x; }",
    "struct inner { unsigned char k; int v[3]; }; int f(struct inner *p) { return (int)*p; }",
    "void f(int c, int *p, int x) { c ? p : x; }",
    "struct inner { unsigned char k; int v[3]; }; void f(struct inner *p) { if (*p) ; }",
    "struct inner { unsigned char k; int v[3]; }; int f(struct inner *p) { return !*p; }",
    "void f(int *p) { switch (p) { case 1: ; } }",
    "int f(int x) { switch (x) { case \"a\": ; } return 1; }",
    "struct inner { unsigned char k; int v[3]; }; int f(struct inner *p) { return *p; }",
    "struct inner { unsigned char k; int v[3]; }; struct node { int value; struct node *next; }; void f(struct inner *p, struct node *q) { *p = *q; }",
    "int y; int x = y;",
    "char c = &c;",
    "void f() { 1++; }",
    "void f(int x) { x + 1 = 2; }",
    "void f(int *p) { p *= 2; }",
    "void f(int *p) { p += p; }",
    "void f(void *p) { p++; }",
    "int f(int *p) { return ~p; }",
    "void f(int x) { int t[2]; t = &x; }",
    "void g(); int f(int x) { return x && g(); }",
    "struct inner { unsigned char k; int v[3]; }; void f(struct inner *p, int x) { x = *p; }",
    "int f(int c, int *p, char *s) { return (c ? p : s) == 0; }",
    "int f() { return; }",
    "void f() { return 1; }",
    "extern struct t x;",
    "struct t x[2][2];",
    "struct node { int value; struct t next; };",
    "struct node { int value; struct node next; };",
    "void f() { struct t x; }">>
===============================================================================
